---- MODULE Spec2Model ----
(***************************************************************************)
(* Consent-gated selective disclosure of travel preferences (travlr-id).   *)
(*                                                                         *)
(* The module models the backend's consent workflow (consent_workflow.py), *)
(* the company decrypt endpoint (company_data_access.py), the company read *)
(* of a context card (simple_storage.py) and the two implementations of    *)
(* the disclosure policy (consent.py, scania.py).                          *)
(*                                                                         *)
(* Nullable columns are modelled as sequences of length 0 (None) or 1.     *)
(***************************************************************************)
EXTENDS Integers, Sequences, FiniteSets, Bags, TLC

VARIABLES
    consent_records,   \* table consent_records: request_id -> ConsentRecord row
    credential_store,  \* consent_workflow.credential_store: said -> context card
    audit_log,         \* table audit_logs, in insertion order
    approve_tasks,     \* bag of the approvals whose handler is suspended at its await
    now,               \* datetime.utcnow(), in hours
    context_cards,     \* simple_storage table context_cards: id -> row
    access_logs,       \* simple_storage table access_logs, in insertion order
    policy_input,      \* the arguments of the disclosure policy under evaluation
    policy_output,     \* what the two policy implementations answered
    last_response,     \* the response of the handler that returned last
    db_pool,           \* TravelPreferencesService.db_pool
    preferences_table, \* PostgreSQL table travel_preferences: its rows
    acdc_blobs,        \* PostgreSQL table acdc_blobs: said -> row
    company_keys,      \* CompanyEncryptionService.company_keys: company_aid -> keypair
    employee_keys,     \* CompanyEncryptionService.employee_keys: employee_aid -> key
    sealed_payloads,   \* what encrypt_data_for_employee returned, held by its callers
    master_cards,      \* table master_cards (models/master_cards.py): id -> row
    master_card_access,   \* table master_card_access, in insertion order
    master_card_backups,  \* table master_card_backups, in insertion order
    working_master_cards, \* simple_storage table master_cards: id -> row
    orm_context_cards,    \* table context_cards (models/context_cards.py): id -> row
    context_card_access   \* table context_card_access, in insertion order

vars == <<consent_records, credential_store, audit_log, approve_tasks, now,
          context_cards, access_logs, policy_input, policy_output, last_response,
          db_pool, preferences_table, acdc_blobs, company_keys, employee_keys, sealed_payloads,
          master_cards, master_card_access, master_card_backups,
          working_master_cards, orm_context_cards, context_card_access>>

consent_vars == <<consent_records, credential_store, audit_log, approve_tasks, now>>
card_vars == <<context_cards, access_logs>>
policy_vars == <<policy_input, policy_output>>
store_vars == <<db_pool, preferences_table, acdc_blobs>>
key_vars == <<company_keys, employee_keys, sealed_payloads>>
master_vars == <<master_cards, master_card_access, master_card_backups,
                 working_master_cards>>
orm_vars == <<orm_context_cards, context_card_access>>

-----------------------------------------------------------------------------
(* Bounds of the model *)

MaxRequests == 1
MaxWorkers == 2
MaxTime == 1
MaxCards == 1
MaxLogs == 2
MaxFields == 2
MaxEvaluations == 2
MaxStored == 2
MaxKeys == 2
MaxMasterCards == 2
MaxAccess == 2

-----------------------------------------------------------------------------
(* Values *)

None == <<>>
Some(v) == <<v>>
Value(opt) == opt[1]

RequestIds == 1..MaxRequests

EmployeeAids == {"EEmployee1"}
CompanyAids == {"ECompany1"}
MalformedAids == {"bad-aid"}
\* the companies validate_company_api_key can authenticate
AuthCompanies == {"ECompany1", "ECompany2"}

RequestedFieldChoices == {{"dietary", "emergency_contact"}}
ApprovedFieldChoices ==
    {{"dietary"}, {"dietary", "emergency_contact"}, {"dietary", "flight_preferences"}}
Saids == {"ESaid1", "ESaid2"}
ExpiresHoursChoices == {1}

validate_aid(aid) == aid \in EmployeeAids \cup CompanyAids \cup AuthCompanies

\* company_encryption_service._mock_encrypt_for_employee: returns or raises
MockEncryptOutcomes == {"encrypted", "raises"}

-----------------------------------------------------------------------------
(* HTTP responses.  A handler whose only handler clause is                  *)
(* "except Exception" turns every HTTPException raised in its body into a   *)
(* 500; deny and revoke re-raise an HTTPException unchanged.                *)

HTTPException(status_code, detail) == [status_code |-> status_code, detail |-> detail]

WrapAll(exc) == [status_code |-> 500, detail |-> exc.detail]
ReRaise(exc) == exc

Ok(body) == [status_code |-> 200, detail |-> body]

Response(op, args, answer) ==
    [op |-> op, args |-> args, status_code |-> answer.status_code,
     detail |-> answer.detail]

AuditLog(action, entity_id, actor_type) ==
    [action |-> action, entity_id |-> entity_id, actor_type |-> actor_type]

-----------------------------------------------------------------------------
(* The key stores of the encryption service and the card tables start empty *)

InitCardServices ==
    /\ acdc_blobs = [said \in Saids |-> None]
    /\ company_keys = [c \in AuthCompanies |-> None]
    /\ employee_keys = [e \in EmployeeAids |-> None]
    /\ sealed_payloads = {}
    /\ master_cards = <<>>
    /\ master_card_access = <<>>
    /\ master_card_backups = <<>>
    /\ working_master_cards = <<>>
    /\ orm_context_cards = <<>>
    /\ context_card_access = <<>>

-----------------------------------------------------------------------------
(* Consent workflow *)

Init ==
    /\ consent_records = <<>>
    /\ credential_store = [s \in Saids |-> None]
    /\ audit_log = <<>>
    /\ approve_tasks = EmptyBag
    /\ now = 0
    /\ context_cards = <<>>
    /\ access_logs = <<>>
    /\ policy_input = None
    /\ policy_output = None
    /\ last_response = None
    /\ db_pool = None
    /\ preferences_table = {}
    /\ InitCardServices

Tick ==
    /\ now < MaxTime
    /\ now' = now + 1
    /\ UNCHANGED <<consent_records, credential_store, audit_log, approve_tasks,
                   card_vars, policy_vars, store_vars, last_response, key_vars, master_vars, orm_vars>>

Exists(request_id) == request_id \in DOMAIN consent_records

ConsentRecord(request_id, company_aid, employee_aid, requested_fields, expires_at) ==
    [request_id |-> request_id,
     employee_aid |-> employee_aid,
     company_aid |-> company_aid,
     requested_fields |-> requested_fields,
     approved_fields |-> None,
     status |-> "pending",
     expires_at |-> expires_at,
     approved_at |-> None,
     denied_at |-> None,
     revoked_at |-> None,
     context_card_said |-> None,
     employee_signature |-> None]

\* POST /consent/request
create_consent_request(company_aid, employee_aid, requested_fields, expires_hours) ==
    LET request_id == Len(consent_records) + 1
    IN  IF ~validate_aid(company_aid)
        THEN /\ last_response' = Response("create_request", None,
                    WrapAll(HTTPException(400, "Invalid company AID format")))
             /\ UNCHANGED <<consent_vars, card_vars, policy_vars, store_vars, key_vars, master_vars, orm_vars>>
        ELSE IF ~validate_aid(employee_aid)
        THEN /\ last_response' = Response("create_request", None,
                    WrapAll(HTTPException(400, "Invalid employee AID format")))
             /\ UNCHANGED <<consent_vars, card_vars, policy_vars, store_vars, key_vars, master_vars, orm_vars>>
        ELSE /\ request_id <= MaxRequests
             /\ consent_records' = Append(consent_records,
                    ConsentRecord(request_id, company_aid, employee_aid,
                                  requested_fields, now + expires_hours))
             /\ audit_log' = Append(audit_log,
                    AuditLog("consent_request_created", request_id, "company"))
             /\ last_response' = Response("create_request", None,
                    Ok([request_id |-> request_id, status |-> "pending"]))
             /\ UNCHANGED <<credential_store, approve_tasks, now, card_vars, policy_vars, store_vars, key_vars, master_vars, orm_vars>>

\* the payload approve builds for the approved fields
TravelData(approved_fields) ==
    {k \in {"dietaryRequirements", "emergencyContact", "flightPreferences"} :
        \/ k = "dietaryRequirements" /\ "dietary" \in approved_fields
        \/ k = "emergencyContact" /\ "emergency_contact" \in approved_fields
        \/ k = "flightPreferences" /\ "flight_preferences" \in approved_fields}

ContextCardData(record, approval) ==
    [encryptedContent |-> TravelData(approval.approved_fields),
     approvedFields |-> approval.approved_fields,
     issuer |-> record.employee_aid,
     recipient |-> record.company_aid]

\* FieldsAccepted without the subset test: any non-empty overlap is let through
FieldsAcceptedOnOverlap(approved_fields, requested_fields) ==
    approved_fields \cap requested_fields # {}

\* approve's validation of the approved fields
FieldsAccepted(approved_fields, requested_fields) ==
    approved_fields \subseteq requested_fields

\* the handlers' test of expires_at
Expired(record) == record.expires_at <= now

\* what approve answers before it reaches the encryption; None when it goes on
ApproveRefusal(approval) ==
    LET request_id == approval.request_id
        record == consent_records[request_id]
    IN  IF ~Exists(request_id)
        THEN Some(HTTPException(404, "Consent request not found"))
        ELSE IF record.status # "pending"
        THEN Some(HTTPException(400, "Request already decided"))
        ELSE IF Expired(record)
        THEN Some(HTTPException(400, "Consent request has expired"))
        ELSE IF ~FieldsAccepted(approval.approved_fields, record.requested_fields)
        THEN Some(HTTPException(400, "Approved fields must be subset of requested fields"))
        ELSE None

\* how approve's handler clause treats an HTTPException raised in its body
ApproveRaise(exc) == WrapAll(exc)

\* POST /consent/approve, from the lookup to the await of the encryption.  The
\* row is read without a lock and written later without a condition on its
\* status, so other handlers (this process at the await, or another server
\* process on the same database) may run between the two halves.
ApproveBegin(approval) ==
    LET request_id == approval.request_id
        refusal == ApproveRefusal(approval)
        args == [request_id |-> request_id, approved_fields |-> approval.approved_fields]
    IN  IF refusal # None
        THEN /\ consent_records' =
                  IF Value(refusal).detail = "Consent request has expired"
                  THEN [consent_records EXCEPT ![request_id].status = "expired"]
                  ELSE consent_records
             /\ last_response' = Response("approve", args, ApproveRaise(Value(refusal)))
             /\ UNCHANGED <<credential_store, audit_log, approve_tasks, now,
                            card_vars, policy_vars, store_vars, key_vars, master_vars, orm_vars>>
        ELSE /\ BagCardinality(approve_tasks) < MaxWorkers
             /\ approve_tasks' = approve_tasks (+) SetToBag({approval})
             /\ UNCHANGED <<consent_records, credential_store, audit_log, now,
                            card_vars, policy_vars, store_vars, last_response, key_vars, master_vars, orm_vars>>

\* the row approve writes: only the columns it assigns
ApprovedRow(row, approval) ==
    [row EXCEPT !.status = "approved",
                !.approved_fields = Some(approval.approved_fields),
                !.context_card_said = Some(approval.context_card_said),
                !.employee_signature = Some(approval.employee_signature),
                !.approved_at = Some(now)]

\* the credential store after approve's try block
StoreAfterEncryption(store, record, approval, outcome) ==
    IF outcome = "encrypted"
    THEN [store EXCEPT ![approval.context_card_said] =
             Some(ContextCardData(record, approval))]
    ELSE store

\* POST /consent/approve, from the encryption's outcome to the response
ApproveResume(approval, outcome) ==
    LET request_id == approval.request_id
        args == [request_id |-> request_id, approved_fields |-> approval.approved_fields]
    IN  /\ BagIn(approval, approve_tasks)
        /\ credential_store' = StoreAfterEncryption(credential_store,
               consent_records[request_id], approval, outcome)
        /\ consent_records' = [consent_records EXCEPT
                                  ![request_id] = ApprovedRow(@, approval)]
        /\ audit_log' = Append(audit_log,
               AuditLog("consent_approved", request_id, "employee"))
        /\ approve_tasks' = approve_tasks (-) SetToBag({approval})
        /\ last_response' = Response("approve", args,
               Ok([request_id |-> request_id, status |-> "approved"]))
        /\ UNCHANGED <<now, card_vars, policy_vars, store_vars, key_vars, master_vars, orm_vars>>

\* the request states deny refuses
DenyRefusal(request_id) ==
    IF ~Exists(request_id)
    THEN Some(HTTPException(404, "Consent request not found"))
    ELSE IF consent_records[request_id].status # "pending"
    THEN Some(HTTPException(400, "Request already decided"))
    ELSE None

\* POST /consent/deny/{request_id}
deny_consent_request(request_id) ==
    LET args == [request_id |-> request_id]
        refusal == DenyRefusal(request_id)
    IN  IF refusal # None
        THEN /\ last_response' = Response("deny", args, ReRaise(Value(refusal)))
             /\ UNCHANGED <<consent_vars, card_vars, policy_vars, store_vars, key_vars, master_vars, orm_vars>>
        ELSE /\ consent_records' = [consent_records EXCEPT
                    ![request_id].status = "denied",
                    ![request_id].denied_at = Some(now)]
             /\ audit_log' = Append(audit_log,
                    AuditLog("consent_denied", request_id, "employee"))
             /\ last_response' = Response("deny", args,
                    Ok([request_id |-> request_id, status |-> "denied"]))
             /\ UNCHANGED <<credential_store, approve_tasks, now, card_vars, policy_vars, store_vars, key_vars, master_vars, orm_vars>>

\* the expiry check without the test of the status
StatusAfterExpiryCheckOfAnyStatus(record) ==
    IF Expired(record) THEN "expired" ELSE record.status

\* the status get_consent_status stores and reports
StatusAfterExpiryCheck(record) ==
    IF record.status = "pending" /\ Expired(record) THEN "expired" ELSE record.status

\* GET /consent/status/{request_id}
get_consent_status(request_id) ==
    LET args == [request_id |-> request_id]
        record == consent_records[request_id]
    IN  IF ~Exists(request_id)
        THEN /\ last_response' = Response("get_status", args,
                    WrapAll(HTTPException(404, "Consent request not found")))
             /\ UNCHANGED <<consent_vars, card_vars, policy_vars, store_vars, key_vars, master_vars, orm_vars>>
        ELSE /\ consent_records' = [consent_records EXCEPT
                    ![request_id].status = StatusAfterExpiryCheck(record)]
             /\ last_response' = Response("get_status", args,
                    Ok([status |-> StatusAfterExpiryCheck(record),
                        approved_fields |-> record.approved_fields,
                        context_card_said |-> record.context_card_said]))
             /\ UNCHANGED <<credential_store, audit_log, approve_tasks, now,
                            card_vars, policy_vars, store_vars, key_vars, master_vars, orm_vars>>

\* get_data with a test of expires_at on the approved record
ConsentDataAnswerUntilExpiry(request_id) ==
    LET record == consent_records[request_id]
    IN  IF ~Exists(request_id)
        THEN WrapAll(HTTPException(404, "Consent request not found"))
        ELSE IF record.status # "approved" \/ Expired(record)
        THEN WrapAll(HTTPException(400, "Request not approved"))
        ELSE IF record.context_card_said = None
        THEN WrapAll(HTTPException(404, "Context card not yet created"))
        ELSE Ok([context_card_said |-> record.context_card_said,
                 approved_fields |-> record.approved_fields])

\* what GET /consent/data/{request_id} answers
ConsentDataAnswer(request_id) ==
    LET record == consent_records[request_id]
    IN  IF ~Exists(request_id)
        THEN WrapAll(HTTPException(404, "Consent request not found"))
        ELSE IF record.status # "approved"
        THEN WrapAll(HTTPException(400, "Request not approved"))
        ELSE IF record.context_card_said = None
        THEN WrapAll(HTTPException(404, "Context card not yet created"))
        ELSE Ok([context_card_said |-> record.context_card_said,
                 approved_fields |-> record.approved_fields])

\* GET /consent/data/{request_id}
get_consent_data(request_id) ==
    /\ last_response' = Response("get_data", [request_id |-> request_id],
                                 ConsentDataAnswer(request_id))
    /\ UNCHANGED <<consent_vars, card_vars, policy_vars, store_vars, key_vars, master_vars, orm_vars>>

\* the request states revoke refuses
RevokeRefusal(request_id) ==
    IF ~Exists(request_id)
    THEN Some(HTTPException(404, "Consent request not found"))
    ELSE IF consent_records[request_id].status # "approved"
    THEN Some(HTTPException(400, "Can only revoke approved consents"))
    ELSE None

\* DELETE /consent/revoke/{request_id}
revoke_consent(request_id) ==
    LET args == [request_id |-> request_id]
        refusal == RevokeRefusal(request_id)
    IN  IF refusal # None
        THEN /\ last_response' = Response("revoke", args, ReRaise(Value(refusal)))
             /\ UNCHANGED <<consent_vars, card_vars, policy_vars, store_vars, key_vars, master_vars, orm_vars>>
        ELSE /\ consent_records' = [consent_records EXCEPT
                    ![request_id].status = "revoked",
                    ![request_id].revoked_at = Some(now)]
             /\ audit_log' = Append(audit_log,
                    AuditLog("consent_revoked", request_id, "employee"))
             /\ last_response' = Response("revoke", args,
                    Ok([request_id |-> request_id, status |-> "revoked"]))
             /\ UNCHANGED <<credential_store, approve_tasks, now, card_vars, policy_vars, store_vars, key_vars, master_vars, orm_vars>>

\* keria_service.get_credential: the KERIA agent's answer, else the credential store
get_credential(credential_said, keria) ==
    IF keria = "found" THEN Some("credential held by the KERIA agent")
    ELSE credential_store[credential_said]

\* the rows decrypt_employee_data's query matches; first() returns one of them
ConsentForCard(request, auth_company) ==
    {r \in DOMAIN consent_records :
        /\ consent_records[r].context_card_said = Some(request.context_card_said)
        /\ consent_records[r].employee_aid = request.employee_aid
        /\ consent_records[r].company_aid = auth_company}

\* what POST /company/decrypt-data answers when its query returned row r (0: no row)
DecryptAnswer(request, auth_company, r, keria, decrypt) ==
    IF ~validate_aid(request.employee_aid)
    THEN WrapAll(HTTPException(400, "Invalid employee AID"))
    ELSE IF request.company_aid # auth_company
    THEN WrapAll(HTTPException(403, "Company AID mismatch"))
    ELSE IF r = 0
    THEN WrapAll(HTTPException(404, "No approved consent found for this context card"))
    ELSE IF consent_records[r].status # "approved"
    THEN WrapAll(HTTPException(403, "Consent not approved"))
    ELSE IF get_credential(request.context_card_said, keria) = None
    THEN WrapAll(HTTPException(404, "Context card not found in KERIA"))
    ELSE IF decrypt = "raises"
    THEN [status_code |-> 500, detail |-> "Data decryption failed"]
    ELSE Ok([decrypted_fields |-> consent_records[r].approved_fields])

\* POST /company/decrypt-data
decrypt_employee_data(request, auth_company, keria, decrypt) ==
    \E r \in IF ConsentForCard(request, auth_company) = {} THEN {0}
             ELSE ConsentForCard(request, auth_company) :
        /\ last_response' = Response("decrypt",
               [request_id |-> r, context_card_said |-> request.context_card_said],
               DecryptAnswer(request, auth_company, r, keria, decrypt))
        /\ UNCHANGED <<consent_vars, card_vars, policy_vars, store_vars, key_vars, master_vars, orm_vars>>

-----------------------------------------------------------------------------
(* Specification of the consent workflow *)

Approvals ==
    [request_id : RequestIds, approved_fields : ApprovedFieldChoices,
     context_card_said : Saids, employee_signature : {"sig"}]

CreateRequest ==
    \E c \in CompanyAids \cup MalformedAids, e \in EmployeeAids \cup MalformedAids,
       f \in RequestedFieldChoices, h \in ExpiresHoursChoices :
        create_consent_request(c, e, f, h)

Approve == \E a \in Approvals : ApproveBegin(a)

ApproveCompletes == \E a \in Approvals, o \in MockEncryptOutcomes : ApproveResume(a, o)

Deny == \E r \in RequestIds : deny_consent_request(r)

GetStatus == \E r \in RequestIds : get_consent_status(r)

GetData == \E r \in RequestIds : get_consent_data(r)

Revoke == \E r \in RequestIds : revoke_consent(r)

DataRequests ==
    [employee_aid : EmployeeAids \cup MalformedAids, company_aid : AuthCompanies,
     context_card_said : Saids]

DecryptEmployeeData ==
    \E q \in DataRequests, c \in AuthCompanies,
       k \in {"found", "absent"}, d \in {"decrypted", "raises"} :
        decrypt_employee_data(q, c, k, d)

Next ==
    \/ Tick
    \/ CreateRequest
    \/ Approve
    \/ ApproveCompletes
    \/ Deny
    \/ GetStatus
    \/ GetData
    \/ Revoke
    \/ DecryptEmployeeData

Spec == Init /\ [][Next]_vars

-----------------------------------------------------------------------------
(* Context cards kept by SimpleStorageService *)

CardIds == 1..MaxCards
EncryptedDataChoices == {"ciphertext"}
SharedFieldChoices == {<<"dietary">>}
LogOutcomes == {"written", "fails"}

sha256(data) == <<"sha256", data>>

CardExists(card_id) == card_id \in DOMAIN context_cards

\* INSERT INTO access_logs; a failure is logged as a warning and swallowed
_log_access(logs, card_id, card_type, accessed_by, access_type, log_outcome) ==
    IF log_outcome = "written"
    THEN Append(logs, [card_id |-> card_id, card_type |-> card_type,
                       accessed_by |-> accessed_by, access_type |-> access_type,
                       accessed_at |-> now])
    ELSE logs

ContextCardRow(card_id, employee_aid, company_aid, encrypted_data, shared_fields) ==
    [id |-> card_id,
     employee_aid |-> employee_aid,
     company_aid |-> company_aid,
     encrypted_data |-> encrypted_data,
     data_hash |-> sha256(encrypted_data),
     shared_fields |-> shared_fields,
     created_at |-> now,
     is_active |-> TRUE]

\* POST /working/context-cards
create_context_card(employee_aid, company_aid, encrypted_data, shared_fields, log_outcome) ==
    LET card_id == Len(context_cards) + 1
    IN  /\ card_id <= MaxCards
        /\ Len(access_logs) < MaxLogs
        /\ context_cards' = Append(context_cards,
               ContextCardRow(card_id, employee_aid, company_aid,
                              encrypted_data, shared_fields))
        /\ access_logs' = _log_access(access_logs, card_id, "context_card",
                                      employee_aid, "create", log_outcome)
        /\ last_response' = Response("create_card", None,
               Ok([id |-> card_id, data_hash |-> sha256(encrypted_data)]))
        /\ UNCHANGED <<consent_vars, policy_vars, store_vars, key_vars, master_vars, orm_vars>>

\* the row selected by WHERE id = ? AND company_aid = ? AND is_active = 1
CardRowForCompany(card_id, company_aid) ==
    IF /\ CardExists(card_id)
       /\ context_cards[card_id].company_aid = company_aid
       /\ context_cards[card_id].is_active
    THEN Some(context_cards[card_id])
    ELSE None

\* GET /working/context-cards/{card_id}/company/{company_aid}
get_context_card_for_company(card_id, company_aid, log_outcome) ==
    LET row == CardRowForCompany(card_id, company_aid)
        args == [card_id |-> card_id, company_aid |-> company_aid]
    IN  IF row = None
        THEN /\ last_response' = Response("card_read", args,
                    ReRaise(HTTPException(404, "Context card not found or access denied")))
             /\ UNCHANGED <<consent_vars, card_vars, policy_vars, store_vars, key_vars, master_vars, orm_vars>>
        ELSE /\ Len(access_logs) < MaxLogs
             /\ access_logs' = _log_access(access_logs, card_id, "context_card",
                                           company_aid, "company_access", log_outcome)
             /\ last_response' = Response("card_read", args,
                    Ok([encrypted_data |-> Value(row).encrypted_data,
                        shared_fields |-> Value(row).shared_fields]))
             /\ UNCHANGED <<consent_vars, context_cards, policy_vars, store_vars, key_vars, master_vars, orm_vars>>

\* PUT /working/context-cards/{card_id}/revoke
revoke_context_card(card_id, employee_aid, log_outcome) ==
    LET affected == /\ CardExists(card_id)
                    /\ context_cards[card_id].employee_aid = employee_aid
        args == [card_id |-> card_id, employee_aid |-> employee_aid]
    IN  IF ~affected
        THEN /\ last_response' = Response("card_revoke", args,
                    ReRaise(HTTPException(404, "Context card not found")))
             /\ UNCHANGED <<consent_vars, card_vars, policy_vars, store_vars, key_vars, master_vars, orm_vars>>
        ELSE /\ Len(access_logs) < MaxLogs
             /\ context_cards' = [context_cards EXCEPT ![card_id].is_active = FALSE]
             /\ access_logs' = _log_access(access_logs, card_id, "context_card",
                                           employee_aid, "revoke", log_outcome)
             /\ last_response' = Response("card_revoke", args,
                    Ok("Context card revoked successfully"))
             /\ UNCHANGED <<consent_vars, policy_vars, store_vars, key_vars, master_vars, orm_vars>>

(* Specification of the card store next to the consent workflow *)

CardApprovals ==
    [request_id : RequestIds, approved_fields : {{"dietary"}},
     context_card_said : {"ESaid1"}, employee_signature : {"sig"}]

CardsCreateRequest ==
    \E c \in CompanyAids, e \in EmployeeAids,
       f \in RequestedFieldChoices, h \in ExpiresHoursChoices :
        create_consent_request(c, e, f, h)

CardsApprove == \E a \in CardApprovals : ApproveBegin(a)

CardsApproveCompletes ==
    \E a \in CardApprovals, o \in MockEncryptOutcomes : ApproveResume(a, o)

CreateContextCard ==
    \E e \in EmployeeAids, c \in AuthCompanies, d \in EncryptedDataChoices,
       f \in SharedFieldChoices, l \in LogOutcomes :
        create_context_card(e, c, d, f, l)

GetContextCardForCompany ==
    \E i \in CardIds, c \in AuthCompanies, l \in LogOutcomes :
        get_context_card_for_company(i, c, l)

RevokeContextCard ==
    \E i \in CardIds, e \in EmployeeAids \cup MalformedAids, l \in LogOutcomes :
        revoke_context_card(i, e, l)

NextCards ==
    \/ Tick
    \/ CardsCreateRequest
    \/ CardsApprove
    \/ CardsApproveCompletes
    \/ GetStatus
    \/ Revoke
    \/ CreateContextCard
    \/ GetContextCardForCompany
    \/ RevokeContextCard

SpecCards == Init /\ [][NextCards]_vars

-----------------------------------------------------------------------------
(* Disclosure policy of consent.py and scania.py *)

\* requester identities, spelled out so that suffix and substring tests are computed
Characters ==
    [scania_ai |-> <<"s","c","a","n","i","a","-","a","i">>,
     scania_admin |-> <<"s","c","a","n","i","a","-","a","d","m","i","n">>,
     scania_ai_optimizer |-> <<"s","c","a","n","i","a","-","a","i","-",
                               "o","p","t","i","m","i","z","e","r">>,
     scania_fleet_management |-> <<"s","c","a","n","i","a","-","f","l","e","e","t","-",
                                   "m","a","n","a","g","e","m","e","n","t">>]

\* requester names a caller of the access-request endpoint may give
Requesters == {"scania_ai", "scania_admin", "scania_ai_optimizer"}

endswith(str, suffix) ==
    /\ Len(str) >= Len(suffix)
    /\ SubSeq(str, Len(str) - Len(suffix) + 1, Len(str)) = suffix

contains(str, sub) ==
    \E i \in 1..(Len(str) - Len(sub) + 1) : SubSeq(str, i, i + Len(sub) - 1) = sub

\* the clients authenticate_scania issues tokens to
valid_clients == {"scania_fleet_management", "scania_ai_optimizer"}

EmployeeIds == {"SE12345", "SE99999"}

sample_employee_data ==
    [SE12345 |->
        [employee_info |-> [employeeId |-> "SE12345", fullName |-> "Erik Andersson"],
         flight_preferences |->
            [seatPreference |-> "aisle",
             mealPreference |-> "vegetarian",
             frequentFlyerNumbers |-> [SAS |-> "EuroBonus123456",
                                       Lufthansa |-> "Miles789012"]],
         hotel_preferences |->
            [roomType |-> "standard",
             loyaltyPrograms |-> [Scandic |-> "Scandic123456",
                                  Radisson |-> "Radisson789012"]],
         accessibility_needs |-> [wheelchairRequired |-> FALSE],
         emergency_contact |-> [name |-> "Anna Andersson", phone |-> "+46-70-123-4567"]]]

FieldNames == {"employee_info", "flight_preferences", "hotel_preferences",
               "accessibility_needs", "emergency_contact"}
UnknownFieldNames == {"passport_number"}

DefaultFields ==
    <<"employee_info", "flight_preferences", "hotel_preferences",
      "accessibility_needs", "emergency_contact">>

ConsentSettings ==
    [share_with_scania : BOOLEAN, share_flight_prefs : BOOLEAN,
     share_hotel_prefs : BOOLEAN, share_accessibility_needs : BOOLEAN,
     share_emergency_contact : BOOLEAN, ai_processing_consent : BOOLEAN]

field_consent_mapping(consent_settings) ==
    [employee_info |-> consent_settings.share_with_scania,
     flight_preferences |-> consent_settings.share_flight_prefs,
     hotel_preferences |-> consent_settings.share_hotel_prefs,
     accessibility_needs |-> consent_settings.share_accessibility_needs,
     emergency_contact |-> consent_settings.share_emergency_contact]

\* field in field_consent_mapping and field_consent_mapping[field]
FieldConsented(field, mapping) == field \in DOMAIN mapping /\ mapping[field]

ai_consent_granted(consent_settings) == TRUE
ai_consent(consent_settings) == consent_settings.ai_processing_consent

AiMayDiscloseAny(field) == TRUE
AiMayDisclose(field) == field \in {"flight_preferences", "hotel_preferences"}

\* ConsentUsable that never looks at expires_at
ConsentUsableUntilRevoked(consent_record) ==
    /\ consent_record # None
    /\ Value(consent_record).active

\* consent.py: not in consent_storage, or inactive, or past expires_at
ConsentUsable(consent_record) ==
    /\ consent_record # None
    /\ Value(consent_record).active
    /\ ~(now > Value(consent_record).expires_at)

\* AccessPartition that sorts only the fields of field_consent_mapping and
\* passes over any other requested field
AccessPartitionOfMapped(requester, consent_settings, requested_fields) ==
    LET mapping == field_consent_mapping(consent_settings)
        ai == endswith(Characters[requester], <<"-", "a", "i">>)
        Disclosed(field) ==
            /\ field \in DOMAIN mapping
            /\ IF ai
               THEN ai_consent(consent_settings) /\ AiMayDisclose(field)
               ELSE mapping[field]
        Denied(field) == field \in DOMAIN mapping /\ ~Disclosed(field)
        disclosed_fields == SelectSeq(requested_fields, Disclosed)
    IN  [disclosed_fields |-> disclosed_fields,
         denied_fields |-> SelectSeq(requested_fields, Denied),
         access_granted |-> Len(disclosed_fields) > 0]

\* consent.py: disclosed_fields and denied_fields as they stand at access_granted
AccessPartition(requester, consent_settings, requested_fields) ==
    LET mapping == field_consent_mapping(consent_settings)
        AiDisclosed(field) == AiMayDisclose(field)
        AiDenied(field) == ~AiMayDisclose(field)
        Disclosed(field) == FieldConsented(field, mapping)
        Denied(field) == ~FieldConsented(field, mapping)
        partition ==
            IF endswith(Characters[requester], <<"-", "a", "i">>)
            THEN IF ~ai_consent(consent_settings)
                 THEN [disclosed_fields |-> <<>>, denied_fields |-> requested_fields]
                 ELSE [disclosed_fields |-> SelectSeq(requested_fields, AiDisclosed),
                       denied_fields |-> SelectSeq(requested_fields, AiDenied)]
            ELSE [disclosed_fields |-> SelectSeq(requested_fields, Disclosed),
                  denied_fields |-> SelectSeq(requested_fields, Denied)]
    IN  [disclosed_fields |-> partition.disclosed_fields,
         denied_fields |-> partition.denied_fields,
         access_granted |-> Len(partition.disclosed_fields) > 0]

DataAccessResponse(access_granted, disclosed_fields, denied_fields, access_token) ==
    [status_code |-> 200, access_granted |-> access_granted,
     disclosed_fields |-> disclosed_fields, denied_fields |-> denied_fields,
     access_token |-> access_token]

\* POST /consent/access-request; audit_storage is not defined in consent.py, so
\* the append after the partition raises NameError and the handler answers 500
request_data_access(access_request, consent_record) ==
    IF ~ConsentUsable(consent_record)
    THEN [partition |-> None,
          response |-> DataAccessResponse(FALSE, <<>>,
                                          access_request.requested_fields, None)]
    ELSE [partition |-> Some(AccessPartition(access_request.requester,
                                             Value(consent_record).consent_settings,
                                             access_request.requested_fields)),
          response |-> WrapAll(HTTPException(500,
                           "name 'audit_storage' is not defined"))]

requester_type(client_id) ==
    IF contains(Characters[client_id], <<"a", "i">>) THEN "ai" ELSE "admin"

len(collection) == Cardinality(DOMAIN collection)

\* Anonymized that forgets the hotel loyalty programmes
AnonymizedFlyersOnly(payload) ==
    IF "frequentFlyerNumbers" \in DOMAIN payload
    THEN [payload EXCEPT !.frequentFlyerNumbers = [count |-> len(@)]]
    ELSE payload

\* scania.py: the copy of a payload handed to an AI requester
Anonymized(payload) ==
    LET flyers == IF "frequentFlyerNumbers" \in DOMAIN payload
                  THEN [payload EXCEPT !.frequentFlyerNumbers = [count |-> len(@)]]
                  ELSE payload
    IN  IF "loyaltyPrograms" \in DOMAIN flyers
        THEN [flyers EXCEPT !.loyaltyPrograms = [count |-> len(@)]]
        ELSE flyers

Range(seq) == {seq[i] : i \in DOMAIN seq}

EmployeeTravelData(data_available, consent_status, travel_preferences, disclosed_fields, data_classification) ==
    [status_code |-> 200, data_available |-> data_available,
     consent_status |-> consent_status, travel_preferences |-> travel_preferences,
     disclosed_fields |-> disclosed_fields,
     data_classification |-> data_classification]

\* scania.py: the filtering applied once the consent is known to be active
TravelDataDisclosure(client_id, consent_settings, employee_data, requested_fields) ==
    LET mapping == field_consent_mapping(consent_settings)
        AiDisclosed(field) ==
            /\ field \in {"flight_preferences", "hotel_preferences"}
            /\ FieldConsented(field, mapping)
        Disclosed(field) == FieldConsented(field, mapping)
        ai == requester_type(client_id) = "ai"
        disclosed_fields ==
            IF ai
            THEN IF ~consent_settings.ai_processing_consent
                 THEN <<>>
                 ELSE SelectSeq(requested_fields, AiDisclosed)
            ELSE SelectSeq(requested_fields, Disclosed)
        disclosed_data ==
            [field \in Range(disclosed_fields) |->
                IF ai THEN Anonymized(employee_data[field]) ELSE employee_data[field]]
        data_classification ==
            IF disclosed_fields = <<>> THEN "denied"
            ELSE IF ai THEN "anonymized" ELSE "full"
    IN  EmployeeTravelData(Len(disclosed_fields) > 0, "active",
            IF Range(disclosed_fields) = {} THEN None ELSE Some(disclosed_data),
            disclosed_fields, data_classification)

\* GET /scania/employee/{employee_id}/travel-data
get_employee_travel_data(employee_id, fields, client_id, consent_record) ==
    LET requested_fields == IF fields = <<>> THEN DefaultFields ELSE fields
    IN  IF employee_id \notin DOMAIN sample_employee_data
        THEN ReRaise(HTTPException(404, "Employee not found"))
        ELSE IF consent_record = None
        THEN EmployeeTravelData(FALSE, "no_consent", None, <<>>, "denied")
        ELSE IF ~Value(consent_record).active \/ now > Value(consent_record).expires_at
        THEN EmployeeTravelData(FALSE,
                 IF now > Value(consent_record).expires_at THEN "expired" ELSE "revoked",
                 None, <<>>, "denied")
        ELSE TravelDataDisclosure(client_id, Value(consent_record).consent_settings,
                                  sample_employee_data[employee_id], requested_fields)

(* Specification of the disclosure policy over its inputs *)

RequestedFieldLists ==
    UNION {[1..n -> FieldNames \cup UnknownFieldNames] : n \in 0..MaxFields}

\* expires_at of a stored consent: already past, or not yet
ExpiresAtChoices == {MaxTime - 1, MaxTime}

StoredConsents ==
    {None} \cup {Some(c) : c \in [active : BOOLEAN, expires_at : ExpiresAtChoices,
                                  consent_settings : ConsentSettings]}

\* the consent of the employee asked about: consent_storage.get(employee_id)
PolicyInputs ==
    [requester : Requesters, client_id : valid_clients, employee_id : EmployeeIds,
     requested_fields : RequestedFieldLists, consent_record : StoredConsents]

InitPolicy ==
    /\ consent_records = <<>>
    /\ credential_store = [s \in Saids |-> None]
    /\ audit_log = <<>>
    /\ approve_tasks = EmptyBag
    /\ now = MaxTime
    /\ context_cards = <<>>
    /\ access_logs = <<>>
    /\ policy_input \in {Some(i) : i \in PolicyInputs}
    /\ policy_output = [request_data_access |-> None,
                        get_employee_travel_data |-> None]
    /\ last_response = None
    /\ db_pool = None
    /\ preferences_table = {}
    /\ InitCardServices

RequestDataAccess ==
    /\ policy_output.request_data_access = None
    /\ policy_output' = [policy_output EXCEPT !.request_data_access =
           Some(request_data_access(
                    [requester |-> Value(policy_input).requester,
                     requested_fields |-> Value(policy_input).requested_fields],
                    Value(policy_input).consent_record))]
    /\ UNCHANGED <<consent_vars, card_vars, policy_input, last_response, store_vars, key_vars, master_vars, orm_vars>>

GetEmployeeTravelData ==
    /\ policy_output.get_employee_travel_data = None
    /\ policy_output' = [policy_output EXCEPT !.get_employee_travel_data =
           Some(get_employee_travel_data(
                    Value(policy_input).employee_id,
                    Value(policy_input).requested_fields,
                    Value(policy_input).client_id,
                    Value(policy_input).consent_record))]
    /\ UNCHANGED <<consent_vars, card_vars, policy_input, last_response, store_vars, key_vars, master_vars, orm_vars>>

NextPolicy ==
    \/ RequestDataAccess
    \/ GetEmployeeTravelData

SpecPolicy == InitPolicy /\ [][NextPolicy]_vars

(* Specification of repeated evaluations against the stored objects *)

\* anonymization that writes into the stored payload instead of a copy of it
AnonymizedInPlace(employee_data, field) ==
    [anonymized_data |-> Anonymized(employee_data[field]),
     employee_data |-> [employee_data EXCEPT ![field] = Anonymized(@)]]

\* scania.py: anonymized_data = employee_data[field].copy(), then the two
\* collections are replaced in the copy; employee_data is what the store holds
\* afterwards
AnonymizedCopy(employee_data, field) ==
    [anonymized_data |-> Anonymized(employee_data[field]),
     employee_data |-> employee_data]

RECURSIVE AiDisclosureLoop(_, _, _)
\* scania.py: the loop of the AI branch over requested_fields, left to right
AiDisclosureLoop(mapping, employee_data, requested_fields) ==
    IF requested_fields = <<>>
    THEN [disclosed_data |-> <<>>, disclosed_fields |-> <<>>,
          employee_data |-> employee_data]
    ELSE LET before == AiDisclosureLoop(mapping, employee_data,
                           SubSeq(requested_fields, 1, Len(requested_fields) - 1))
             field == requested_fields[Len(requested_fields)]
             copy == AnonymizedCopy(before.employee_data, field)
         IN  IF /\ field \in {"flight_preferences", "hotel_preferences"}
                /\ FieldConsented(field, mapping)
             THEN [disclosed_data |->
                       (field :> copy.anonymized_data) @@ before.disclosed_data,
                   disclosed_fields |-> Append(before.disclosed_fields, field),
                   employee_data |-> copy.employee_data]
             ELSE before

\* GET /scania/employee/{employee_id}/travel-data against the stored employee
\* data: the answer, and the store as the handler leaves it
TravelDataEvaluation(employee_id, fields, client_id, consent_record, employee_store) ==
    LET requested_fields == IF fields = <<>> THEN DefaultFields ELSE fields
        early == get_employee_travel_data(employee_id, fields, client_id,
                                          consent_record)
    IN  IF early.status_code # 200 \/ early.consent_status # "active"
        THEN [response |-> early, employee_store |-> employee_store]
        ELSE LET consent_settings == Value(consent_record).consent_settings
                 employee_data == employee_store[employee_id]
                 loop == AiDisclosureLoop(field_consent_mapping(consent_settings),
                                          employee_data, requested_fields)
             IN  IF /\ requester_type(client_id) = "ai"
                    /\ consent_settings.ai_processing_consent
                 THEN [response |->
                           EmployeeTravelData(Len(loop.disclosed_fields) > 0, "active",
                               IF loop.disclosed_fields = <<>> THEN None
                               ELSE Some(loop.disclosed_data),
                               loop.disclosed_fields,
                               IF loop.disclosed_fields # <<>> THEN "anonymized"
                               ELSE "denied"),
                       employee_store |->
                           [employee_store EXCEPT ![employee_id] = loop.employee_data]]
                 ELSE [response |-> TravelDataDisclosure(client_id, consent_settings,
                                        employee_data, requested_fields),
                       employee_store |-> employee_store]

EvaluationRequesters == {"scania_ai", "scania_admin"}

\* no record, a revoked record, and the active records of every setting
EvaluationConsents ==
    {None}
        \cup {Some([active |-> FALSE, expires_at |-> MaxTime,
                    consent_settings |-> c]) :
                 c \in {cs \in ConsentSettings : \A f \in DOMAIN cs : cs[f]}}
        \cup {Some([active |-> TRUE, expires_at |-> MaxTime, consent_settings |-> c]) :
                 c \in ConsentSettings}

EvaluationInputs ==
    [requester : EvaluationRequesters, client_id : valid_clients,
     employee_id : EmployeeIds, requested_fields : RequestedFieldLists,
     consent_record : EvaluationConsents]

\* policy_output holds consent_storage[employee_id], sample_employee_data and
\* the answers given so far
InitEvaluations ==
    /\ consent_records = <<>>
    /\ credential_store = [s \in Saids |-> None]
    /\ audit_log = <<>>
    /\ approve_tasks = EmptyBag
    /\ now = MaxTime
    /\ context_cards = <<>>
    /\ access_logs = <<>>
    /\ policy_input \in {Some(i) : i \in EvaluationInputs}
    /\ policy_output = [consent_storage |-> Value(policy_input).consent_record,
                        sample_employee_data |-> sample_employee_data,
                        evaluations |-> <<>>]
    /\ last_response = None
    /\ db_pool = None
    /\ preferences_table = {}
    /\ InitCardServices

\* request_data_access reads consent_storage and writes to neither store
EvaluateDataAccess ==
    /\ Len(policy_output.evaluations) < MaxEvaluations
    /\ policy_output' = [policy_output EXCEPT !.evaluations = Append(@,
           [endpoint |-> "request_data_access",
            answer |-> request_data_access(
                           [requester |-> Value(policy_input).requester,
                            requested_fields |-> Value(policy_input).requested_fields],
                           policy_output.consent_storage)])]
    /\ UNCHANGED <<consent_vars, card_vars, policy_input, last_response, store_vars, key_vars, master_vars, orm_vars>>

EvaluateTravelData ==
    /\ Len(policy_output.evaluations) < MaxEvaluations
    /\ LET evaluation == TravelDataEvaluation(
                             Value(policy_input).employee_id,
                             Value(policy_input).requested_fields,
                             Value(policy_input).client_id,
                             policy_output.consent_storage,
                             policy_output.sample_employee_data)
       IN  policy_output' =
               [policy_output EXCEPT
                   !.sample_employee_data = evaluation.employee_store,
                   !.evaluations = Append(@,
                       [endpoint |-> "get_employee_travel_data",
                        answer |-> evaluation.response])]
    /\ UNCHANGED <<consent_vars, card_vars, policy_input, last_response, store_vars, key_vars, master_vars, orm_vars>>

NextEvaluations ==
    \/ EvaluateDataAccess
    \/ EvaluateTravelData

SpecEvaluations == InitEvaluations /\ [][NextEvaluations]_vars

-----------------------------------------------------------------------------
(* Hash-linked store: travel_preferences_service.py and hybrid_storage.py *)

\* a dict is the set of its items <<key, value>>
Keys(dict) == {item[1] : item \in dict}

\* dict.get(key): the value under key, or None
get(dict, key) ==
    IF key \in Keys(dict)
    THEN Some((CHOOSE item \in dict : item[1] = key)[2])
    ELSE None

\* dict.get(key, default)
get_default(dict, key, default) ==
    IF get(dict, key) = None THEN default ELSE Value(get(dict, key))

Business ==
    {<<"dietary_preferences", "vegetarian">>, <<"preferred_class", "business">>}

First ==
    {<<"dietary_preferences", "vegetarian">>, <<"preferred_class", "first">>}

\* preferences_data of the callers: the empty dict and two profiles that differ
\* in preferred_class only
PreferencesChoices == {{}, Business, First}

EmployeeKeys == {"employee-key-SE12345", "employee-key-SE99999"}

\* json.dumps(..., sort_keys=True[, separators]) and json.loads
json_dumps(data, separators) == <<"json", separators, data>>
json_loads(text) == text[3]

b64encode(bytes) == <<"base64", bytes>>
b64decode(text) == text[2]

_generate_preferences_hash(preferences_data) ==
    b64encode(sha256(json_dumps(preferences_data, "compact")))

PreferencesHashes == {_generate_preferences_hash(p) : p \in PreferencesChoices}

\* PBKDF2HMAC with the fixed salt: the Fernet key of an employee key
kdf_derive(employee_key) == <<"pbkdf2", "travlr-preferences-salt", employee_key>>

\* a Fernet token: readable only under the key it was made with, and only as
\* long as its bytes are the ones encrypt produced
fernet_encrypt(key, plaintext) ==
    [key |-> key, plaintext |-> plaintext, authentic |-> TRUE]

Returned(value) == [outcome |-> "returned", value |-> value]
Raised(error) == [outcome |-> "raised", error |-> error]

fernet_decrypt(key, token) ==
    IF token.authentic /\ token.key = key
    THEN Returned(token.plaintext)
    ELSE Raised("InvalidToken")

_encrypt_preferences(preferences_data, employee_key) ==
    b64encode(fernet_encrypt(kdf_derive(employee_key),
                             json_dumps(preferences_data, "default")))

_decrypt_preferences(encrypted_data, employee_key) ==
    LET decrypted_json == fernet_decrypt(kdf_derive(employee_key),
                                         b64decode(encrypted_data))
    IN  IF decrypted_json.outcome = "raised"
        THEN decrypted_json
        ELSE Returned(json_loads(decrypted_json.value))

ServiceResponse(op, args, result) == [op |-> op, args |-> args, result |-> result]

PreferencesRow(employee_id, preferences_hash, encrypted_data) ==
    [employee_id |-> employee_id, preferences_hash |-> preferences_hash,
     encrypted_data |-> encrypted_data]

\* the rows a lookup by hash alone would match
RowsWithHash(table, employee_id, preferences_hash) ==
    {row \in table : row.preferences_hash = preferences_hash}

\* WHERE employee_id = $1 AND preferences_hash = $2
RowsWhere(table, employee_id, preferences_hash) ==
    {row \in table : /\ row.employee_id = employee_id
                     /\ row.preferences_hash = preferences_hash}

\* INSERT ... ON CONFLICT (employee_id, preferences_hash) DO UPDATE
Upsert(table, row) ==
    (table \ RowsWhere(table, row.employee_id, row.preferences_hash)) \cup {row}

\* TravelPreferencesService.initialize
initialize ==
    /\ db_pool = None
    /\ db_pool' = Some("pool")
    /\ UNCHANGED <<consent_vars, card_vars, policy_vars, last_response,
                   preferences_table, acdc_blobs, key_vars, master_vars, orm_vars>>

\* the result of store_encrypted_preferences and the table it leaves
StoreResult(pool, table, employee_id, preferences_data, employee_key) ==
    IF pool = None
    THEN [result |-> Raised("AttributeError"), table |-> table]
    ELSE LET preferences_hash == _generate_preferences_hash(preferences_data)
             encrypted_data == _encrypt_preferences(preferences_data, employee_key)
         IN  [result |-> Returned([preferences_hash |-> preferences_hash,
                                   employee_id |-> employee_id,
                                   storage_location |-> "postgresql_encrypted"]),
              table |-> Upsert(table, PreferencesRow(employee_id, preferences_hash,
                                                     encrypted_data))]

store_encrypted_preferences(employee_id, preferences_data, employee_key) ==
    LET stored == StoreResult(db_pool, preferences_table, employee_id,
                              preferences_data, employee_key)
    IN  /\ Cardinality(stored.table) <= MaxStored
        /\ preferences_table' = stored.table
        /\ last_response' = ServiceResponse("store_encrypted_preferences",
               [employee_id |-> employee_id, preferences_data |-> preferences_data,
                employee_key |-> employee_key], stored.result)
        /\ UNCHANGED <<consent_vars, card_vars, policy_vars, db_pool, acdc_blobs,
                   key_vars, master_vars, orm_vars>>

\* the result of retrieve_encrypted_preferences: Returned(None) when no row
\* matches, Returned(Some(dict)) when one decrypts, Raised otherwise
RetrieveResult(pool, table, employee_id, preferences_hash, employee_key) ==
    IF pool = None
    THEN Raised("AttributeError")
    ELSE LET rows == RowsWhere(table, employee_id, preferences_hash)
         IN  IF rows = {}
             THEN Returned(None)
             ELSE LET row == CHOOSE r \in rows : TRUE
                      decrypted_data ==
                          _decrypt_preferences(row.encrypted_data, employee_key)
                  IN  IF decrypted_data.outcome = "raised"
                      THEN decrypted_data
                      ELSE Returned(Some(decrypted_data.value))

retrieve_encrypted_preferences(employee_id, preferences_hash, employee_key) ==
    /\ last_response' = ServiceResponse("retrieve_encrypted_preferences",
           [employee_id |-> employee_id, preferences_hash |-> preferences_hash,
            employee_key |-> employee_key],
           RetrieveResult(db_pool, preferences_table, employee_id, preferences_hash,
                          employee_key))
    /\ UNCHANGED <<consent_vars, card_vars, policy_vars, store_vars, key_vars, master_vars, orm_vars>>

\* Python truth of what retrieve returned: None and the empty dict are false
Truthy(decrypted_data) == decrypted_data # None /\ Value(decrypted_data) # {}

\* the dict verify_preferences_integrity returns
VerifyResult(pool, table, employee_id, preferences_hash, employee_key) ==
    LET retrieved == RetrieveResult(pool, table, employee_id, preferences_hash,
                                    employee_key)
    IN  IF retrieved.outcome = "raised"
        THEN Returned([valid |-> FALSE, error |-> retrieved.error])
        ELSE IF ~Truthy(retrieved.value)
        THEN Returned([valid |-> FALSE, error |-> "Preferences not found"])
        ELSE LET recalculated_hash ==
                     _generate_preferences_hash(Value(retrieved.value))
                 integrity_valid == recalculated_hash = preferences_hash
             IN  Returned([valid |-> integrity_valid,
                           integrity_check |-> IF integrity_valid THEN "passed"
                                               ELSE "failed"])

verify_preferences_integrity(employee_id, preferences_hash, employee_key) ==
    /\ last_response' = ServiceResponse("verify_preferences_integrity",
           [employee_id |-> employee_id, preferences_hash |-> preferences_hash,
            employee_key |-> employee_key],
           VerifyResult(db_pool, preferences_table, employee_id, preferences_hash,
                        employee_key))
    /\ UNCHANGED <<consent_vars, card_vars, policy_vars, store_vars, key_vars, master_vars, orm_vars>>

ApprovedFieldLists ==
    {<<"dietary_preferences">>, <<"preferred_class", "dietary_preferences">>,
     <<"emergency_contact">>}

\* FilteredPreferences that hands the whole payload on
UnfilteredPreferences(full_preferences, approved_fields) == full_preferences

\* filtered_preferences: the items of approved fields present in the payload
FilteredPreferences(full_preferences, approved_fields) ==
    {item \in full_preferences : item[1] \in Range(approved_fields)}

ContextCardResult(pool, table, employee_id, preferences_hash, employee_key, approved_fields, company_aid) ==
    LET retrieved == RetrieveResult(pool, table, employee_id, preferences_hash,
                                    employee_key)
    IN  IF retrieved.outcome = "raised"
        THEN retrieved
        ELSE IF ~Truthy(retrieved.value)
        THEN Raised("ValueError: Preferences not found")
        ELSE LET filtered_preferences ==
                     FilteredPreferences(Value(retrieved.value), approved_fields)
             IN  Returned([context_data |-> filtered_preferences,
                           context_hash |->
                               _generate_preferences_hash(filtered_preferences),
                           source_hash |-> preferences_hash,
                           approved_fields |-> approved_fields,
                           company_aid |-> company_aid,
                           employee_id |-> employee_id])

create_context_card_from_hash(employee_id, preferences_hash, employee_key, approved_fields, company_aid) ==
    /\ last_response' = ServiceResponse("create_context_card_from_hash",
           [employee_id |-> employee_id, preferences_hash |-> preferences_hash,
            employee_key |-> employee_key, approved_fields |-> approved_fields],
           ContextCardResult(db_pool, preferences_table, employee_id,
                             preferences_hash, employee_key, approved_fields,
                             company_aid))
    /\ UNCHANGED <<consent_vars, card_vars, policy_vars, store_vars, key_vars, master_vars, orm_vars>>

\* bool() of a value that is None or a string
bool(value) == value # None /\ Value(value) # ""

Bool(value) == [type |-> "bool", value |-> value]
Str(value) == [type |-> "str", value |-> value]

EssentialAttributes(full_preferences) ==
    [dietary_preferences |-> get(full_preferences, "dietary_preferences"),
     accessibility_needs |-> get(full_preferences, "accessibility_needs"),
     emergency_contact |-> bool(get(full_preferences, "emergency_contact")),
     preferred_class |-> get_default(full_preferences, "preferred_class", "economy"),
     travel_frequency |->
         get_default(full_preferences, "travel_frequency", "occasional")]

create_minimal_acdc_attributes(employee_id, preferences_hash, essential_attributes) ==
    [employee_id |-> employee_id,
     preferences_hash |-> preferences_hash,
     data_location |-> "postgresql_encrypted",
     verification_attributes |->
         [has_dietary_restrictions |->
              Bool(bool(essential_attributes.dietary_preferences)),
          requires_accessibility |->
              Bool(bool(essential_attributes.accessibility_needs)),
          has_emergency_contact |-> Bool(essential_attributes.emergency_contact),
          preferred_class |-> Str(essential_attributes.preferred_class),
          travel_frequency |-> Str(essential_attributes.travel_frequency)],
     schema_version |-> "1.0",
     created_at |-> now]

create_hash_based_credential(employee_id, full_preferences, employee_key) ==
    LET stored == StoreResult(db_pool, preferences_table, employee_id,
                              full_preferences, employee_key)
        args == [employee_id |-> employee_id, full_preferences |-> full_preferences,
                 employee_key |-> employee_key]
    IN  /\ Cardinality(stored.table) <= MaxStored
        /\ preferences_table' = stored.table
        /\ last_response' = ServiceResponse("create_hash_based_credential", args,
               IF stored.result.outcome = "raised"
               THEN stored.result
               ELSE Returned([acdc_attributes |->
                                  create_minimal_acdc_attributes(employee_id,
                                      stored.result.value.preferences_hash,
                                      EssentialAttributes(full_preferences)),
                              storage_reference |-> stored.result.value,
                              architecture |-> "hash_based_minimal_acdc"]))
        /\ UNCHANGED <<consent_vars, card_vars, policy_vars, db_pool, acdc_blobs,
                   key_vars, master_vars, orm_vars>>

\* the row holds what store_encrypted_preferences wrote under its hash
AsStored(row) ==
    \E p \in PreferencesChoices, k \in EmployeeKeys :
        /\ row.preferences_hash = _generate_preferences_hash(p)
        /\ row.encrypted_data = _encrypt_preferences(p, k)

\* what another writer of the database can leave in encrypted_data: the same
\* bytes damaged, or a token made under the same key for another payload
AlteredData(row) ==
    LET token == b64decode(row.encrypted_data)
    IN  {b64encode([token EXCEPT !.authentic = FALSE])}
            \cup {b64encode(fernet_encrypt(token.key, json_dumps(p, "default"))) :
                     p \in {q \in PreferencesChoices :
                               _generate_preferences_hash(q) # row.preferences_hash}}

\* the table is written outside the service
AlterStoredRow ==
    \E row \in {r \in preferences_table : AsStored(r)} :
      \E encrypted_data \in AlteredData(row) :
        /\ preferences_table' =
               Upsert(preferences_table,
                      PreferencesRow(row.employee_id, row.preferences_hash,
                                     encrypted_data))
        /\ UNCHANGED <<consent_vars, card_vars, policy_vars, last_response, db_pool, acdc_blobs,
                   key_vars, master_vars, orm_vars>>

\* what the KERIA agent or the credential store holds under acdc_said
AcdcCredentials ==
    {None,
     Some([postgres_record_id |-> None, encrypted_data_hash |-> None]),
     Some([postgres_record_id |-> Some("record-1"), encrypted_data_hash |-> None])}
        \cup {Some([postgres_record_id |-> Some("record-1"),
                    encrypted_data_hash |-> Some(h)]) : h \in PreferencesHashes}

\* hybrid_storage.py: None, or the hash the credential links to
resolve_acdc_to_postgres(acdc_credential) ==
    IF acdc_credential = None THEN None
    ELSE IF Value(acdc_credential).postgres_record_id = None THEN None
    ELSE Some([encrypted_data_hash |-> Value(acdc_credential).encrypted_data_hash])

VerifyAcdcResult(acdc_credential, postgres_data_hash) ==
    LET resolution == resolve_acdc_to_postgres(acdc_credential)
    IN  IF resolution = None
        THEN Returned(FALSE)
        ELSE Returned(Value(resolution).encrypted_data_hash = postgres_data_hash)

verify_acdc_integrity(acdc_credential, postgres_data_hash) ==
    /\ last_response' = ServiceResponse("verify_acdc_integrity",
           [acdc_credential |-> acdc_credential,
            postgres_data_hash |-> postgres_data_hash],
           VerifyAcdcResult(acdc_credential, postgres_data_hash))
    /\ UNCHANGED <<consent_vars, card_vars, policy_vars, store_vars, key_vars, master_vars, orm_vars>>

StorePreferences ==
    \E e \in EmployeeIds, p \in PreferencesChoices, k \in EmployeeKeys :
        store_encrypted_preferences(e, p, k)

RetrievePreferences ==
    \E e \in EmployeeIds, h \in PreferencesHashes, k \in EmployeeKeys :
        retrieve_encrypted_preferences(e, h, k)

VerifyPreferences ==
    \E e \in EmployeeIds, h \in PreferencesHashes, k \in EmployeeKeys :
        verify_preferences_integrity(e, h, k)

VerifyAcdcIntegrity ==
    \E c \in AcdcCredentials,
       h \in PreferencesHashes \ {_generate_preferences_hash({})} :
        verify_acdc_integrity(c, Some(h))

NextStore ==
    \/ initialize
    \/ StorePreferences
    \/ RetrievePreferences
    \/ VerifyPreferences
    \/ AlterStoredRow
    \/ VerifyAcdcIntegrity

SpecStore == Init /\ [][NextStore]_vars

(* Specification of the store written by the service alone *)

NextRoundTrip ==
    \/ initialize
    \/ StorePreferences
    \/ RetrievePreferences

SpecRoundTrip == Init /\ [][NextRoundTrip]_vars

(* Specification of the payloads handed to a company *)

PayloadApprovals ==
    [request_id : RequestIds, approved_fields : ApprovedFieldChoices,
     context_card_said : {"ESaid1"}, employee_signature : {"sig"}]

PayloadApprove == \E a \in PayloadApprovals : ApproveBegin(a)

PayloadApproveCompletes ==
    \E a \in PayloadApprovals, o \in MockEncryptOutcomes : ApproveResume(a, o)

\* credentials.py: the key is made from the employee id of the request
CredentialKeys == [SE12345 |-> "employee-key-SE12345"]

CreateHashBasedCredential ==
    \E e \in DOMAIN CredentialKeys, p \in PreferencesChoices :
        create_hash_based_credential(e, p, CredentialKeys[e])

CreateContextCardFromHash ==
    \E e \in DOMAIN CredentialKeys, h \in PreferencesHashes,
       f \in ApprovedFieldLists, c \in CompanyAids :
        create_context_card_from_hash(e, h, CredentialKeys[e], f, c)

NextPayloads ==
    \/ CardsCreateRequest
    \/ PayloadApprove
    \/ PayloadApproveCompletes
    \/ initialize
    \/ CreateHashBasedCredential
    \/ CreateContextCardFromHash

SpecPayloads == Init /\ [][NextPayloads]_vars

-----------------------------------------------------------------------------
(* Properties of the consent workflow *)

ApprovedEntries(request_id) ==
    {i \in DOMAIN audit_log : /\ audit_log[i].action = "consent_approved"
                              /\ audit_log[i].entity_id = request_id}

IsResponse(op, request_id) ==
    /\ last_response # None
    /\ last_response.op = op
    /\ last_response.args.request_id = request_id

\* C1: approved_fields is unset or a subset of requested_fields in every state,
\* and an approve of a pending, unexpired request with approved_fields outside
\* requested_fields is refused and changes neither the record, the credential
\* store, the audit log nor the set of approvals in progress.
C1_ApprovedWithinRequested ==
    /\ [](\A r \in DOMAIN consent_records :
            \/ consent_records[r].approved_fields = None
            \/ Value(consent_records[r].approved_fields)
                   \subseteq consent_records[r].requested_fields)
    /\ [][\A a \in Approvals :
            (/\ Exists(a.request_id)
             /\ consent_records[a.request_id].status = "pending"
             /\ ~Expired(consent_records[a.request_id])
             /\ ~(a.approved_fields \subseteq consent_records[a.request_id].requested_fields)
             /\ ApproveBegin(a))
            => /\ UNCHANGED <<consent_records, credential_store, audit_log, approve_tasks>>
               /\ last_response'.op = "approve"
               /\ last_response'.status_code # 200]_vars

C1_Witness ==
    /\ Exists(1)
    /\ IsResponse("approve", 1)
    /\ last_response.status_code # 200
    /\ ~(last_response.args.approved_fields \subseteq consent_records[1].requested_fields)
    /\ consent_records[1].status = "pending"
    /\ ~Expired(consent_records[1])
    /\ consent_records[1].approved_fields = None
    /\ consent_records[1].context_card_said = None

\* C2: of the approve calls that ran concurrently on one pending request, only
\* one succeeds: a request never has more than one successful approval.
C2_OneApprovalSucceeds ==
    \A r \in DOMAIN consent_records : Cardinality(ApprovedEntries(r)) <= 1

\* C3: every record in status approved has its context card in the credential
\* store under its context_card_said.
C3_ApprovedHasContextCard ==
    \A r \in DOMAIN consent_records :
        consent_records[r].status = "approved"
        => /\ consent_records[r].context_card_said # None
           /\ credential_store[Value(consent_records[r].context_card_said)] # None

AllowedTransitions ==
    {<<"pending", "approved">>, <<"pending", "denied">>, <<"pending", "expired">>,
     <<"approved", "revoked">>}

\* C4: a record's status changes only along pending->approved, pending->denied,
\* pending->expired and approved->revoked.
C4_StatusTransitions ==
    [][\A r \in DOMAIN consent_records :
          consent_records'[r].status # consent_records[r].status
          => <<consent_records[r].status, consent_records'[r].status>>
                 \in AllowedTransitions]_vars

\* C5: get_status, get_data, approve and deny, applied to a pending record whose
\* expires_at has passed, leave the stored status expired.
C5_LazyExpiry ==
    [][\A r \in DOMAIN consent_records :
          (/\ consent_records[r].status = "pending"
           /\ Expired(consent_records[r])
           /\ \/ get_consent_status(r)
              \/ get_consent_data(r)
              \/ deny_consent_request(r)
              \/ \E a \in Approvals : a.request_id = r /\ ApproveBegin(a))
          => consent_records'[r].status = "expired"]_vars

\* C6: once a revoke has succeeded on a request, no get_data for the request and
\* no decrypt_employee_data resolved to it returns data.
C6_RevokedStaysRefused ==
    \A r \in DOMAIN consent_records :
        (/\ consent_records[r].revoked_at # None
         /\ IsResponse("get_data", r) \/ IsResponse("decrypt", r))
        => last_response.status_code # 200

\* C8: approve reports its refusals as the errors that caused them, not-found,
\* conflict, expired and validation, and never as an internal error.
C8_ApproveErrorsDistinct ==
    (last_response # None /\ last_response.op = "approve"
        /\ last_response.status_code # 200)
    => /\ last_response.status_code # 500
       /\ last_response.detail = "Consent request not found"
              => last_response.status_code = 404

ConsentsForCard(card) ==
    {r \in DOMAIN consent_records :
        /\ consent_records[r].employee_aid = card.employee_aid
        /\ consent_records[r].company_aid = card.company_aid}

\* C7: a company read of a context card returns no data while a consent of the
\* card's employee to that company is revoked or expired.
C7_ReadConsultsConsent ==
    (/\ last_response # None
     /\ last_response.op = "card_read"
     /\ last_response.status_code = 200)
    => \A r \in ConsentsForCard(context_cards[last_response.args.card_id]) :
           consent_records[r].status \notin {"revoked", "expired"}

-----------------------------------------------------------------------------
(* Properties of the disclosure policy *)

PolicyIn == Value(policy_input)

HasAccessOut == policy_output # None /\ policy_output.request_data_access # None
HasTravelOut == policy_output # None /\ policy_output.get_employee_travel_data # None
AccessOut == Value(policy_output.request_data_access)
TravelOut == Value(policy_output.get_employee_travel_data)

AutomatedAccess == endswith(Characters[PolicyIn.requester], <<"-", "a", "i">>)
AutomatedTravel == requester_type(PolicyIn.client_id) = "ai"

HasConsent == PolicyIn.consent_record # None
Flags == Value(PolicyIn.consent_record).consent_settings
AiFlag == HasConsent /\ Flags.ai_processing_consent

ResponseDisclosed(response) ==
    IF response.status_code = 200 THEN Range(response.disclosed_fields) ELSE {}

AccessDisclosed ==
    ResponseDisclosed(AccessOut.response)
        \cup (IF AccessOut.partition = None THEN {}
              ELSE Range(Value(AccessOut.partition).disclosed_fields))

Requested == Range(PolicyIn.requested_fields)

\* a travel-data call that names no fields asks for all five
TravelRequested ==
    IF PolicyIn.requested_fields = <<>> THEN Range(DefaultFields) ELSE Requested

\* C9: for a request by an automated requester, fields are disclosed only if
\* ai_processing_consent is true; when it is false every requested field is
\* denied, nothing is disclosed and the classification is denied, whatever the
\* per-category flags are.
C9_AutomatedNeedsAiConsent ==
    /\ (HasAccessOut /\ AutomatedAccess)
       => /\ AccessDisclosed # {} => AiFlag
          /\ (HasConsent /\ ~AiFlag)
             => /\ AccessDisclosed = {}
                /\ AccessOut.partition # None
                   => /\ Value(AccessOut.partition).denied_fields
                          = PolicyIn.requested_fields
                      /\ ~Value(AccessOut.partition).access_granted
                /\ AccessOut.response.status_code = 200
                   => /\ AccessOut.response.denied_fields = PolicyIn.requested_fields
                      /\ ~AccessOut.response.access_granted
    /\ (HasTravelOut /\ AutomatedTravel)
       => /\ ResponseDisclosed(TravelOut) # {} => AiFlag
          /\ (HasConsent /\ ~AiFlag /\ TravelOut.status_code = 200)
             => /\ TravelOut.disclosed_fields = <<>>
                /\ TravelOut.travel_preferences = None
                /\ ~TravelOut.data_available
                /\ TravelOut.data_classification = "denied"

C9_Witness ==
    /\ HasAccessOut /\ HasTravelOut
    /\ AutomatedAccess /\ AutomatedTravel
    /\ HasConsent /\ ~AiFlag
    /\ Flags.share_flight_prefs /\ Flags.share_hotel_prefs
    /\ "flight_preferences" \in Requested
    /\ AccessOut.partition # None
    /\ Value(AccessOut.partition).denied_fields = PolicyIn.requested_fields
    /\ TravelOut.status_code = 200
    /\ TravelOut.consent_status = "active"
    /\ TravelOut.data_classification = "denied"

AiDisclosable == {"flight_preferences", "hotel_preferences"}

\* C10: for an automated request with ai_processing_consent true, the disclosed
\* fields are among flight_preferences and hotel_preferences and among the
\* requested fields; every other requested field is denied even when its own
\* consent flag is true.
C10_AutomatedOnlyFlightAndHotel ==
    /\ (HasAccessOut /\ AutomatedAccess /\ AiFlag)
       => /\ AccessDisclosed \subseteq AiDisclosable \cap Requested
          /\ AccessOut.partition # None
             => Requested \ AiDisclosable
                    \subseteq Range(Value(AccessOut.partition).denied_fields)
          /\ AccessOut.response.status_code = 200
             => Requested \ AiDisclosable \subseteq Range(AccessOut.response.denied_fields)
    /\ (HasTravelOut /\ AutomatedTravel /\ AiFlag)
       => /\ ResponseDisclosed(TravelOut) \subseteq AiDisclosable \cap TravelRequested
          /\ (TravelOut.status_code = 200 /\ TravelOut.travel_preferences # None)
             => DOMAIN Value(TravelOut.travel_preferences)
                    \subseteq AiDisclosable \cap TravelRequested

C10_Witness ==
    /\ HasAccessOut /\ HasTravelOut
    /\ AutomatedAccess /\ AutomatedTravel
    /\ AiFlag
    /\ Flags.share_emergency_contact /\ Flags.share_flight_prefs
    /\ Requested = {"emergency_contact", "flight_preferences"}
    /\ AccessOut.partition # None
    /\ Value(AccessOut.partition).disclosed_fields = <<"flight_preferences">>
    /\ Value(AccessOut.partition).denied_fields = <<"emergency_contact">>
    /\ TravelOut.status_code = 200
    /\ TravelOut.disclosed_fields = <<"flight_preferences">>

MembershipCollections == {"frequentFlyerNumbers", "loyaltyPrograms"}

StoredPayload(field) == sample_employee_data[PolicyIn.employee_id][field]

\* C11: a flight or hotel payload disclosed to an automated requester has the
\* keys of the stored payload; frequentFlyerNumbers and loyaltyPrograms hold
\* only count, the number of entries of the stored collection, and every other
\* key holds the stored value.
C11_AutomatedPayloadAnonymized ==
    (HasTravelOut /\ AutomatedTravel /\ TravelOut.status_code = 200
        /\ TravelOut.travel_preferences # None)
    => \A field \in DOMAIN Value(TravelOut.travel_preferences) :
          LET payload == Value(TravelOut.travel_preferences)[field]
              stored == StoredPayload(field)
          IN  /\ DOMAIN payload = DOMAIN stored
              /\ \A key \in DOMAIN payload :
                    IF key \in MembershipCollections
                    THEN /\ DOMAIN payload[key] = {"count"}
                         /\ payload[key].count = Cardinality(DOMAIN stored[key])
                    ELSE payload[key] = stored[key]

C11_Witness ==
    /\ HasTravelOut /\ AutomatedTravel
    /\ TravelOut.status_code = 200
    /\ TravelOut.disclosed_fields = <<"flight_preferences", "hotel_preferences">>
    /\ Value(TravelOut.travel_preferences).flight_preferences.frequentFlyerNumbers
           = [count |-> 2]
    /\ Value(TravelOut.travel_preferences).hotel_preferences.loyaltyPrograms
           = [count |-> 2]
    /\ Value(TravelOut.travel_preferences).flight_preferences.seatPreference = "aisle"

UsableConsent == ConsentUsable(PolicyIn.consent_record)

KnownEmployee == PolicyIn.employee_id \in DOMAIN sample_employee_data

\* C12: for a request by an administrative requester against an active
\* consent, each requested field is disclosed exactly when its category flag
\* is true, the disclosed payloads are the stored ones, and the classification
\* is full as soon as one field is disclosed; both the access-request endpoint
\* and the travel-data endpoint answer so.
C12_AdminDisclosesFlagged ==
    /\ (HasTravelOut /\ ~AutomatedTravel /\ UsableConsent /\ KnownEmployee)
       => /\ TravelOut.status_code = 200
          /\ \A field \in TravelRequested :
                field \in Range(TravelOut.disclosed_fields)
                    <=> FieldConsented(field, field_consent_mapping(Flags))
          /\ \A field \in Range(TravelOut.disclosed_fields) :
                Value(TravelOut.travel_preferences)[field] = StoredPayload(field)
          /\ (TravelOut.disclosed_fields # <<>>
                => TravelOut.data_classification = "full")
    /\ (HasAccessOut /\ ~AutomatedAccess /\ UsableConsent)
       => /\ AccessOut.response.status_code = 200
          /\ \A field \in Requested :
                field \in Range(AccessOut.response.disclosed_fields)
                    <=> FieldConsented(field, field_consent_mapping(Flags))

\* the two lists of a computed partition or of a 200 answer split the request
SplitsRequest(lists) ==
    /\ Range(lists.disclosed_fields) \cup Range(lists.denied_fields) = Requested
    /\ Range(lists.disclosed_fields) \cap Range(lists.denied_fields) = {}
    /\ \A field \in Requested \ FieldNames :
          field \in Range(lists.denied_fields)

\* C13: every requested field is in exactly one of disclosed_fields and
\* denied_fields, a field without a category is denied for both requester
\* classes, and the classification is denied exactly when nothing is disclosed,
\* full only for an administrative requester and anonymized only for an
\* automated one.
C13_OutputPartitionsRequest ==
    /\ (HasAccessOut /\ AccessOut.partition # None)
       => SplitsRequest(Value(AccessOut.partition))
    /\ (HasAccessOut /\ AccessOut.response.status_code = 200)
       => SplitsRequest(AccessOut.response)
    /\ (HasTravelOut /\ TravelOut.status_code = 200)
       => /\ Range(TravelOut.disclosed_fields) \subseteq TravelRequested \cap FieldNames
          /\ (TravelOut.data_classification = "denied"
                <=> TravelOut.disclosed_fields = <<>>)
          /\ TravelOut.data_classification \in {"denied", "full", "anonymized"}
          /\ (TravelOut.data_classification = "full" => ~AutomatedTravel)
          /\ (TravelOut.data_classification = "anonymized" => AutomatedTravel)

C13_Witness ==
    /\ HasAccessOut /\ HasTravelOut
    /\ ~AutomatedAccess /\ ~AutomatedTravel
    /\ PolicyIn.requested_fields = <<"flight_preferences", "passport_number">>
    /\ AccessOut.partition # None
    /\ Value(AccessOut.partition).disclosed_fields = <<"flight_preferences">>
    /\ Value(AccessOut.partition).denied_fields = <<"passport_number">>
    /\ TravelOut.status_code = 200
    /\ TravelOut.disclosed_fields = <<"flight_preferences">>
    /\ TravelOut.data_classification = "full"

\* no record, or a revoked one, or one past its expiry
NoUsableConsent ==
    \/ ~HasConsent
    \/ ~Value(PolicyIn.consent_record).active
    \/ now > Value(PolicyIn.consent_record).expires_at

\* C14: without a consent record, or with a revoked or expired one, nothing is
\* disclosed to either requester class: the access request is answered with
\* access_granted false, no disclosed field, every requested field denied and
\* no access token, and the travel-data request with no field and no payload.
C14_NoUsableConsentNoDisclosure ==
    /\ (HasAccessOut /\ NoUsableConsent)
       => /\ AccessOut.partition = None
          /\ AccessOut.response.status_code = 200
          /\ AccessOut.response.access_granted = FALSE
          /\ AccessOut.response.disclosed_fields = <<>>
          /\ AccessOut.response.denied_fields = PolicyIn.requested_fields
          /\ AccessOut.response.access_token = None
    /\ (HasTravelOut /\ NoUsableConsent /\ TravelOut.status_code = 200)
       => /\ TravelOut.data_available = FALSE
          /\ TravelOut.disclosed_fields = <<>>
          /\ TravelOut.travel_preferences = None
          /\ TravelOut.data_classification = "denied"
          /\ TravelOut.consent_status \in {"no_consent", "revoked", "expired"}

C14_Witness ==
    /\ HasAccessOut /\ HasTravelOut
    /\ AutomatedAccess /\ AutomatedTravel
    /\ HasConsent /\ ~Value(PolicyIn.consent_record).active
    /\ Flags.ai_processing_consent /\ Flags.share_flight_prefs
    /\ PolicyIn.requested_fields = <<"flight_preferences">>
    /\ AccessOut.response.denied_fields = <<"flight_preferences">>
    /\ TravelOut.status_code = 200
    /\ TravelOut.consent_status = "revoked"

Evaluations == policy_output.evaluations

\* C15: two evaluations of the same endpoint on the same request give the same
\* answer (disclosed fields, denied fields, classification, payloads), and an
\* evaluation leaves the stored consent and the stored employee data as they
\* were.
C15_EvaluationsAgreeAndKeepStores ==
    /\ \A i, j \in DOMAIN Evaluations :
          Evaluations[i].endpoint = Evaluations[j].endpoint
              => Evaluations[i].answer = Evaluations[j].answer
    /\ policy_output.consent_storage = PolicyIn.consent_record
    /\ policy_output.sample_employee_data = sample_employee_data

C15_Witness ==
    /\ Len(Evaluations) = 2
    /\ \A i \in DOMAIN Evaluations :
          /\ Evaluations[i].endpoint = "get_employee_travel_data"
          /\ Evaluations[i].answer.status_code = 200
          /\ Evaluations[i].answer.data_classification = "anonymized"
          /\ Evaluations[i].answer.disclosed_fields
                 = <<"flight_preferences", "hotel_preferences">>
    /\ policy_output.sample_employee_data = sample_employee_data

-----------------------------------------------------------------------------
(* Properties of the hash-linked store *)

Retrievable(pool, table, employee_id, preferences_hash, employee_key) ==
    LET retrieved == RetrieveResult(pool, table, employee_id, preferences_hash,
                                    employee_key)
    IN  retrieved.outcome = "returned" /\ retrieved.value # None

\* C17: as soon as store_encrypted_preferences(owner, payload, key) has
\* returned hash h, retrieve_encrypted_preferences(owner, h, key) returns
\* exactly payload, and a store of another payload or for another owner leaves
\* every retrieval that returned a payload returning the same payload.
C17_StoreThenRetrieve ==
    [][\A e \in EmployeeIds, p \in PreferencesChoices, k \in EmployeeKeys :
          (/\ store_encrypted_preferences(e, p, k)
           /\ last_response'.result.outcome = "returned")
          => /\ RetrieveResult(db_pool', preferences_table', e,
                    last_response'.result.value.preferences_hash, k)
                  = Returned(Some(p))
             /\ \A e2 \in EmployeeIds, h2 \in PreferencesHashes, k2 \in EmployeeKeys :
                   (/\ <<e2, h2>> # <<e, _generate_preferences_hash(p)>>
                    /\ Retrievable(db_pool, preferences_table, e2, h2, k2))
                   => RetrieveResult(db_pool', preferences_table', e2, h2, k2)
                        = RetrieveResult(db_pool, preferences_table, e2, h2, k2)
      ]_vars

C17_Witness ==
    /\ last_response # None
    /\ last_response.op = "retrieve_encrypted_preferences"
    /\ last_response.args.employee_id = "SE12345"
    /\ last_response.args.preferences_hash = _generate_preferences_hash(Business)
    /\ last_response.result = Returned(Some(Business))
    /\ Cardinality({row \in preferences_table : row.employee_id = "SE12345"}) = 2
    /\ \A row \in preferences_table : AsStored(row)

IsServiceResponse(op) == last_response # None /\ last_response.op = op

\* C18: retrieve_encrypted_preferences never returns without a payload (an
\* absent record is an error) and never returns a payload whose recomputed hash
\* differs from the hash it was asked for (a mismatch is an error).
C18_RetrieveFailsOrMatches ==
    (/\ IsServiceResponse("retrieve_encrypted_preferences")
     /\ last_response.result.outcome = "returned")
    => /\ last_response.result.value # None
       /\ _generate_preferences_hash(Value(last_response.result.value))
              = last_response.args.preferences_hash

\* the row of (employee_id, preferences_hash) is the one store wrote under
\* employee_key
StoredUnder(employee_id, preferences_hash, employee_key) ==
    /\ db_pool # None
    /\ \E row \in RowsWhere(preferences_table, employee_id, preferences_hash) :
          \E p \in PreferencesChoices :
              /\ _generate_preferences_hash(p) = preferences_hash
              /\ row.encrypted_data = _encrypt_preferences(p, employee_key)

\* C19: verify_preferences_integrity and verify_acdc_integrity return and
\* never raise; verify_preferences_integrity reports valid exactly when the
\* record is the one store wrote and the key is the one it was written under,
\* and not valid when the record is absent, the key is wrong, the ciphertext
\* was altered or the decrypted payload has another hash.
C19_VerifyReportsValidity ==
    [][/\ \A e \in EmployeeIds, h \in PreferencesHashes, k \in EmployeeKeys :
             verify_preferences_integrity(e, h, k)
             => /\ last_response'.result.outcome = "returned"
                /\ last_response'.result.value.valid = StoredUnder(e, h, k)
       /\ \A c \in AcdcCredentials, h \in PreferencesHashes :
             verify_acdc_integrity(c, Some(h))
             => /\ last_response'.result.outcome = "returned"
                /\ last_response'.result.value \in BOOLEAN
      ]_vars

\* the approved field a key of approve's travel_data stands for
PayloadField(key) ==
    CASE key = "dietaryRequirements" -> "dietary"
      [] key = "emergencyContact" -> "emergency_contact"
      [] key = "flightPreferences" -> "flight_preferences"

\* C16: the payload of a context card holds data only for approved fields:
\* every key of the travel data approve stores stands for a field of the
\* approval's approved_fields, which are requested fields, and every key of the
\* context_data create_context_card_from_hash returns is in its approved_fields.
C16_PayloadWithinApproved ==
    /\ \A said \in Saids :
          credential_store[said] # None
          => LET card == Value(credential_store[said])
             IN  /\ \A key \in card.encryptedContent :
                       PayloadField(key) \in card.approvedFields
                 /\ \E r \in DOMAIN consent_records :
                       card.approvedFields \subseteq consent_records[r].requested_fields
    /\ (/\ IsServiceResponse("create_context_card_from_hash")
        /\ last_response.result.outcome = "returned")
       => Keys(last_response.result.value.context_data)
              \subseteq Range(last_response.args.approved_fields)

C16_Witness ==
    /\ credential_store["ESaid1"] # None
    /\ Value(credential_store["ESaid1"]).approvedFields = {"dietary"}
    /\ Value(credential_store["ESaid1"]).encryptedContent = {"dietaryRequirements"}
    /\ IsServiceResponse("create_context_card_from_hash")
    /\ last_response.args.approved_fields = <<"dietary_preferences">>
    /\ last_response.args.preferences_hash = _generate_preferences_hash(Business)
    /\ last_response.result.outcome = "returned"
    /\ last_response.result.value.context_data
           = {<<"dietary_preferences", "vegetarian">>}

IsCredential(response) ==
    /\ response # None
    /\ response.op = "create_hash_based_credential"
    /\ response.result.outcome = "returned"

Attributes(response) == response.result.value.acdc_attributes

\* the boolean summaries of a payload
Summaries(full_preferences) ==
    [has_dietary_restrictions |-> bool(get(full_preferences, "dietary_preferences")),
     requires_accessibility |-> bool(get(full_preferences, "accessibility_needs")),
     has_emergency_contact |-> bool(get(full_preferences, "emergency_contact"))]

\* C20: every verification attribute of a minimal credential is a boolean, and
\* two credentials made for the same owner from payloads with the same boolean
\* summaries have the same attributes apart from preferences_hash.
C20_AttributesHoldNoPayloadValue ==
    /\ [](IsCredential(last_response)
            => \A a \in DOMAIN Attributes(last_response).verification_attributes :
                  Attributes(last_response).verification_attributes[a].type = "bool")
    /\ [][(/\ IsCredential(last_response) /\ IsCredential(last_response')
           /\ last_response.args.employee_id = last_response'.args.employee_id
           /\ Summaries(last_response.args.full_preferences)
                  = Summaries(last_response'.args.full_preferences))
          => [Attributes(last_response) EXCEPT !.preferences_hash = "h"]
                 = [Attributes(last_response') EXCEPT !.preferences_hash = "h"]
         ]_vars

-----------------------------------------------------------------------------
(* Encryption between an employee and a company                             *)
(* (company_encryption_service.py)                                          *)

\* the import of PyNaCl succeeded
NACL_AVAILABLE == TRUE

\* dict.get(aid) of a key store
KeysOf(key_store, aid) == IF aid \in DOMAIN key_store THEN key_store[aid] ELSE None

\* PrivateKey.generate(): a key that no earlier call returned
PrivateKey_generate(key_store, company_aid) ==
    IF KeysOf(key_store, company_aid) = None
    THEN <<"x25519-private", company_aid, 1>>
    ELSE <<"x25519-private", company_aid,
           Value(key_store[company_aid]).x25519_private_key[3] + 1>>

public_key(private_key) == <<"x25519-public", private_key[2], private_key[3]>>

EmployeePublicKeys == {"employee-public-key-1", "employee-public-key-2"}
MalformedPublicKeys == {"not-a-key"}

\* PublicKey(x25519_public_key, encoder=Base64Encoder) accepts the key
PublicKeyFormatValid(x25519_public_key) == x25519_public_key \in EmployeePublicKeys

\* Box(private, public): the shared key of the two parties.  A message sealed
\* with a box opens with the same box only.
Box(private_key, public_key_of_peer) == <<"box", private_key, public_key_of_peer>>
box_encrypt(box, plaintext) == [box |-> box, plaintext |-> plaintext]
box_decrypt(box, encrypted) ==
    IF encrypted.box = box THEN Returned(encrypted.plaintext) ELSE Raised("CryptoError")

KeyPair(company_aid, private_key) ==
    [company_aid |-> company_aid,
     x25519_private_key |-> private_key,
     x25519_public_key |-> public_key(private_key),
     generated_at |-> now]

\* CompanyEncryptionService.generate_company_keypair
generate_company_keypair(company_aid) ==
    LET private_key == PrivateKey_generate(company_keys, company_aid)
        keypair == KeyPair(company_aid, private_key)
        args == [company_aid |-> company_aid]
    IN  IF ~NACL_AVAILABLE
        THEN /\ last_response' = ServiceResponse("generate_company_keypair", args,
                    Raised("RuntimeError"))
             /\ UNCHANGED <<consent_vars, card_vars, policy_vars, store_vars, key_vars,
                            master_vars, orm_vars>>
        ELSE /\ private_key[3] <= MaxKeys
             /\ company_keys' = [company_keys EXCEPT ![company_aid] = Some(keypair)]
             /\ last_response' = ServiceResponse("generate_company_keypair", args,
                    Returned(keypair))
             /\ UNCHANGED <<consent_vars, card_vars, policy_vars, store_vars,
                            employee_keys, sealed_payloads, master_vars, orm_vars>>

\* CompanyEncryptionService.initialize_company_keys
initialize_company_keys(company_aid) ==
    IF company_keys[company_aid] # None
    THEN /\ last_response' = ServiceResponse("initialize_company_keys",
                [company_aid |-> company_aid], Returned(Value(company_keys[company_aid])))
         /\ UNCHANGED <<consent_vars, card_vars, policy_vars, store_vars, key_vars,
                        master_vars, orm_vars>>
    ELSE /\ company_keys' = [company_keys EXCEPT ![company_aid] =
                Some(KeyPair(company_aid, PrivateKey_generate(company_keys, company_aid)))]
         /\ last_response' = ServiceResponse("initialize_company_keys",
                [company_aid |-> company_aid],
                Returned(KeyPair(company_aid,
                                 PrivateKey_generate(company_keys, company_aid))))
         /\ UNCHANGED <<consent_vars, card_vars, policy_vars, store_vars,
                        employee_keys, sealed_payloads, master_vars, orm_vars>>

\* CompanyEncryptionService.store_employee_public_key: False when the AID or
\* the key is refused, else the key replaces the one stored for the employee
store_employee_public_key(employee_aid, x25519_public_key) ==
    LET args == [employee_aid |-> employee_aid, x25519_public_key |-> x25519_public_key]
        refused == \/ ~validate_aid(employee_aid)
                   \/ NACL_AVAILABLE /\ ~PublicKeyFormatValid(x25519_public_key)
    IN  IF refused
        THEN /\ last_response' = ServiceResponse("store_employee_public_key", args,
                    Returned(FALSE))
             /\ UNCHANGED <<consent_vars, card_vars, policy_vars, store_vars, key_vars,
                            master_vars, orm_vars>>
        ELSE /\ employee_keys' = [employee_keys EXCEPT ![employee_aid] =
                    Some([employee_aid |-> employee_aid,
                          x25519_public_key |-> x25519_public_key,
                          stored_at |-> now])]
             /\ last_response' = ServiceResponse("store_employee_public_key", args,
                    Returned(TRUE))
             /\ UNCHANGED <<consent_vars, card_vars, policy_vars, store_vars,
                            company_keys, sealed_payloads, master_vars, orm_vars>>

\* what encrypt_data_for_employee returns or raises
EncryptResult(company_store, employee_store, data, employee_aid, company_aid) ==
    IF ~NACL_AVAILABLE
    THEN Raised("RuntimeError")
    ELSE IF KeysOf(employee_store, employee_aid) = None
    THEN Raised("ValueError: No public key found for employee")
    ELSE IF KeysOf(company_store, company_aid) = None
    THEN Raised("ValueError: No private key found for company")
    ELSE Returned(b64encode(box_encrypt(
             Box(Value(company_store[company_aid]).x25519_private_key,
                 Value(employee_store[employee_aid]).x25519_public_key),
             json_dumps(data, "default"))))

\* CompanyEncryptionService.encrypt_data_for_employee
encrypt_data_for_employee(data, employee_aid, company_aid) ==
    LET result == EncryptResult(company_keys, employee_keys, data, employee_aid,
                                company_aid)
    IN  /\ sealed_payloads' =
               IF result.outcome = "returned"
               THEN sealed_payloads \cup
                        {[encrypted_data |-> result.value, data |-> data,
                          employee_aid |-> employee_aid, company_aid |-> company_aid]}
               ELSE sealed_payloads
        /\ last_response' = ServiceResponse("encrypt_data_for_employee",
               [data |-> data, employee_aid |-> employee_aid,
                company_aid |-> company_aid], result)
        /\ UNCHANGED <<consent_vars, card_vars, policy_vars, store_vars,
                       company_keys, employee_keys, master_vars, orm_vars>>

\* what decrypt_data_from_employee returns or raises
DecryptResult(company_store, employee_store, encrypted_data, employee_aid, company_aid) ==
    IF ~NACL_AVAILABLE
    THEN Raised("RuntimeError")
    ELSE IF KeysOf(employee_store, employee_aid) = None
    THEN Raised("ValueError: No public key found for employee")
    ELSE IF KeysOf(company_store, company_aid) = None
    THEN Raised("ValueError: No private key found for company")
    ELSE LET decrypted_bytes ==
                 box_decrypt(Box(Value(company_store[company_aid]).x25519_private_key,
                                 Value(employee_store[employee_aid]).x25519_public_key),
                             b64decode(encrypted_data))
         IN  IF decrypted_bytes.outcome = "raised"
             THEN decrypted_bytes
             ELSE Returned(json_loads(decrypted_bytes.value))

\* CompanyEncryptionService.decrypt_data_from_employee
decrypt_data_from_employee(encrypted_data, employee_aid, company_aid) ==
    /\ last_response' = ServiceResponse("decrypt_data_from_employee",
           [encrypted_data |-> encrypted_data, employee_aid |-> employee_aid,
            company_aid |-> company_aid],
           DecryptResult(company_keys, employee_keys, encrypted_data, employee_aid,
                         company_aid))
    /\ UNCHANGED <<consent_vars, card_vars, policy_vars, store_vars, key_vars,
                   master_vars, orm_vars>>

(* Specification of the encryption service next to approve *)

GenerateCompanyKeypair == \E c \in CompanyAids : generate_company_keypair(c)

InitializeCompanyKeys == \E c \in CompanyAids : initialize_company_keys(c)

StoreEmployeePublicKey ==
    \E e \in EmployeeAids \cup MalformedAids,
       k \in EmployeePublicKeys \cup MalformedPublicKeys :
        store_employee_public_key(e, k)

EncryptDataForEmployee ==
    \E e \in EmployeeAids, c \in AuthCompanies : encrypt_data_for_employee(Business, e, c)

DecryptDataFromEmployee ==
    \E p \in sealed_payloads, e \in EmployeeAids, c \in AuthCompanies :
        decrypt_data_from_employee(p.encrypted_data, e, c)

NextKeys ==
    \/ CardsCreateRequest
    \/ CardsApprove
    \/ CardsApproveCompletes
    \/ GenerateCompanyKeypair
    \/ InitializeCompanyKeys
    \/ StoreEmployeePublicKey
    \/ EncryptDataForEmployee
    \/ DecryptDataFromEmployee

SpecKeys == Init /\ [][NextKeys]_vars

-----------------------------------------------------------------------------
(* Master cards: the endpoints of master_cards.py over the SQLAlchemy        *)
(* models, and the ones of working_storage.py over SimpleStorageService.     *)
(* The declarative Base and the session (app.core.database) are not part of  *)
(* the sources: a row carries the columns the handlers assign and read, and  *)
(* encrypted_profile_data stands for the profile columns copied with it.     *)

CardHolders == {"EEmployee1", "EEmployee2"}
ShortHeaders == {"bad-aid"}
ProfileChoices == {"profile-ciphertext-1", "profile-ciphertext-2"}

\* the dependency verify_employee_access accepts the X-Employee-AID header
HeaderAccepted(x_employee_aid) == Len(x_employee_aid) >= 10

Unauthorized == HTTPException(401, "Invalid or missing X-Employee-AID header")

\* the row of filter(employee_aid == ?, is_active == True).first(): 0 when none
ActiveMasterCard(employee_aid) ==
    IF \E i \in DOMAIN master_cards :
           master_cards[i].employee_aid = employee_aid /\ master_cards[i].is_active
    THEN CHOOSE i \in DOMAIN master_cards :
           master_cards[i].employee_aid = employee_aid /\ master_cards[i].is_active
    ELSE 0

MasterCard(card_id, card_data) ==
    [id |-> card_id,
     employee_aid |-> card_data.employeeAid,
     encrypted_profile_data |-> card_data.encryptedProfileData,
     is_active |-> TRUE,
     created_at |-> now,
     updated_at |-> now,
     last_accessed_at |-> None]

MasterCardAccessLog(master_card_id, access_type) ==
    [master_card_id |-> master_card_id, access_type |-> access_type,
     accessed_at |-> now]

MasterCardBackup(master_card_id, backup_data, backup_reason) ==
    [master_card_id |-> master_card_id, backup_data |-> backup_data,
     backup_reason |-> backup_reason]

MasterCardsKept ==
    UNCHANGED <<master_cards, master_card_access, master_card_backups>>

\* POST /master-cards.  The INSERT of a second row for an employee_aid breaks
\* the column's unique constraint and surfaces as a 500.
create_master_card(card_data, x_employee_aid) ==
    LET card_id == Len(master_cards) + 1
        args == [employee_aid |-> card_data.employeeAid, requester |-> x_employee_aid]
    IN  /\ UNCHANGED <<consent_vars, card_vars, policy_vars, store_vars, key_vars,
                       working_master_cards, master_card_backups, orm_vars>>
        /\ IF ~HeaderAccepted(x_employee_aid)
           THEN /\ last_response' = Response("create_master_card", args, Unauthorized)
                /\ UNCHANGED <<master_cards, master_card_access>>
           ELSE IF card_data.employeeAid # x_employee_aid
           THEN /\ last_response' = Response("create_master_card", args,
                       ReRaise(HTTPException(403, "Employee AID mismatch")))
                /\ UNCHANGED <<master_cards, master_card_access>>
           ELSE IF ActiveMasterCard(x_employee_aid) # 0
           THEN /\ last_response' = Response("create_master_card", args,
                       ReRaise(HTTPException(409,
                           "Master card already exists for this employee")))
                /\ UNCHANGED <<master_cards, master_card_access>>
           ELSE IF \E i \in DOMAIN master_cards :
                       master_cards[i].employee_aid = card_data.employeeAid
           THEN /\ last_response' = Response("create_master_card", args,
                       WrapAll(HTTPException(500, "IntegrityError")))
                /\ UNCHANGED <<master_cards, master_card_access>>
           ELSE /\ card_id <= MaxMasterCards
                /\ Len(master_card_access) < MaxAccess
                /\ master_cards' = Append(master_cards, MasterCard(card_id, card_data))
                /\ master_card_access' = Append(master_card_access,
                       MasterCardAccessLog(card_id, "create"))
                /\ last_response' = Response("create_master_card", args,
                       Ok([id |-> card_id]))

\* what the handlers of /master-cards/employee/{employee_aid} answer before
\* they touch the card; None when they go on
MasterCardRefusal(employee_aid, requesting_employee_aid) ==
    IF ~HeaderAccepted(requesting_employee_aid)
    THEN Some(Unauthorized)
    ELSE IF employee_aid # requesting_employee_aid
    THEN Some(HTTPException(403, "Access denied"))
    ELSE IF ActiveMasterCard(employee_aid) = 0
    THEN Some(HTTPException(404, "Master card not found"))
    ELSE None

\* the two reads of a master card: access_type "read" without the encrypted
\* profile, "decrypt" with it
ReadMasterCard(op, access_type, employee_aid, requesting_employee_aid) ==
    LET refusal == MasterCardRefusal(employee_aid, requesting_employee_aid)
        card_id == ActiveMasterCard(employee_aid)
        args == [employee_aid |-> employee_aid, requester |-> requesting_employee_aid]
    IN  /\ UNCHANGED <<consent_vars, card_vars, policy_vars, store_vars, key_vars,
                       working_master_cards, master_card_backups, orm_vars>>
        /\ IF refusal # None
           THEN /\ last_response' = Response(op, args, ReRaise(Value(refusal)))
                /\ UNCHANGED <<master_cards, master_card_access>>
           ELSE /\ Len(master_card_access) < MaxAccess
                /\ master_card_access' = Append(master_card_access,
                       MasterCardAccessLog(card_id, access_type))
                /\ master_cards' = [master_cards EXCEPT
                       ![card_id].last_accessed_at = Some(now)]
                /\ last_response' = Response(op, args,
                       Ok([id |-> card_id,
                           employeeAid |-> master_cards[card_id].employee_aid,
                           encryptedProfileData |->
                               IF access_type = "decrypt"
                               THEN Some(master_cards[card_id].encrypted_profile_data)
                               ELSE None,
                           lastAccessedAt |-> Some(now)]))

\* GET /master-cards/employee/{employee_aid}
get_employee_master_card(employee_aid, requesting_employee_aid) ==
    ReadMasterCard("get_employee_master_card", "read", employee_aid,
                   requesting_employee_aid)

\* GET /master-cards/employee/{employee_aid}/encrypted
get_employee_master_card_encrypted(employee_aid, requesting_employee_aid) ==
    ReadMasterCard("get_employee_master_card_encrypted", "decrypt", employee_aid,
                   requesting_employee_aid)

\* PUT /master-cards/employee/{employee_aid}; updates is None or the new profile
update_employee_master_card(employee_aid, updates, requesting_employee_aid) ==
    LET refusal == MasterCardRefusal(employee_aid, requesting_employee_aid)
        card_id == ActiveMasterCard(employee_aid)
        args == [employee_aid |-> employee_aid, requester |-> requesting_employee_aid]
    IN  /\ UNCHANGED <<consent_vars, card_vars, policy_vars, store_vars, key_vars,
                       working_master_cards, orm_vars>>
        /\ IF refusal # None
           THEN /\ last_response' = Response("update_employee_master_card", args,
                       ReRaise(Value(refusal)))
                /\ MasterCardsKept
           ELSE /\ Len(master_card_access) < MaxAccess
                /\ master_card_backups' = Append(master_card_backups,
                       MasterCardBackup(card_id,
                           master_cards[card_id].encrypted_profile_data, "update"))
                /\ master_cards' = [master_cards EXCEPT
                       ![card_id].encrypted_profile_data =
                           IF updates = None THEN @ ELSE Value(updates),
                       ![card_id].updated_at = now]
                /\ master_card_access' = Append(master_card_access,
                       MasterCardAccessLog(card_id, "update"))
                /\ last_response' = Response("update_employee_master_card", args,
                       Ok([id |-> card_id]))

\* DELETE /master-cards/employee/{employee_aid}
delete_employee_master_card(employee_aid, requesting_employee_aid) ==
    LET refusal == MasterCardRefusal(employee_aid, requesting_employee_aid)
        card_id == ActiveMasterCard(employee_aid)
        args == [employee_aid |-> employee_aid, requester |-> requesting_employee_aid]
    IN  /\ UNCHANGED <<consent_vars, card_vars, policy_vars, store_vars, key_vars,
                       working_master_cards, orm_vars>>
        /\ IF refusal # None
           THEN /\ last_response' = Response("delete_employee_master_card", args,
                       ReRaise(Value(refusal)))
                /\ MasterCardsKept
           ELSE /\ Len(master_card_access) < MaxAccess
                /\ master_card_backups' = Append(master_card_backups,
                       MasterCardBackup(card_id,
                           master_cards[card_id].encrypted_profile_data, "deletion"))
                /\ master_cards' = [master_cards EXCEPT
                       ![card_id].is_active = FALSE,
                       ![card_id].updated_at = now]
                /\ master_card_access' = Append(master_card_access,
                       MasterCardAccessLog(card_id, "delete"))
                /\ last_response' = Response("delete_employee_master_card", args,
                       Ok("Master card successfully deactivated"))

\* POST /working/master-cards: SimpleStorageService.create_master_card
create_master_card_working(employee_aid, encrypted_data) ==
    LET card_id == Len(working_master_cards) + 1
    IN  /\ card_id <= MaxMasterCards
        /\ working_master_cards' = Append(working_master_cards,
               [id |-> card_id,
                employee_aid |-> employee_aid,
                encrypted_data |-> encrypted_data,
                data_hash |-> sha256(encrypted_data),
                created_at |-> now,
                updated_at |-> now,
                is_active |-> TRUE])
        /\ last_response' = Response("create_master_card_working",
               [employee_aid |-> employee_aid],
               Ok([id |-> card_id, employee_aid |-> employee_aid,
                   data_hash |-> sha256(encrypted_data)]))
        /\ UNCHANGED <<consent_vars, card_vars, policy_vars, store_vars, key_vars,
                       master_cards, master_card_access, master_card_backups, orm_vars>>

\* the rows of WHERE employee_aid = ? AND is_active = 1 ORDER BY created_at DESC
\* LIMIT 1: one of the newest
NewestActive(employee_aid) ==
    {i \in DOMAIN working_master_cards :
        /\ working_master_cards[i].employee_aid = employee_aid
        /\ working_master_cards[i].is_active
        /\ \A j \in DOMAIN working_master_cards :
               (/\ working_master_cards[j].employee_aid = employee_aid
                /\ working_master_cards[j].is_active)
               => working_master_cards[j].created_at
                      <= working_master_cards[i].created_at}

\* GET /working/master-cards/{employee_aid}: SimpleStorageService.get_master_card
get_master_card_working(employee_aid, log_outcome) ==
    LET args == [employee_aid |-> employee_aid]
    IN  IF NewestActive(employee_aid) = {}
        THEN /\ last_response' = Response("get_master_card_working", args,
                    ReRaise(HTTPException(404, "Master card not found")))
             /\ UNCHANGED <<consent_vars, card_vars, policy_vars, store_vars, key_vars,
                            master_vars, orm_vars>>
        ELSE \E i \in NewestActive(employee_aid) :
             /\ Len(access_logs) < MaxLogs
             /\ access_logs' = _log_access(access_logs, i, "master_card",
                                           employee_aid, "read", log_outcome)
             /\ last_response' = Response("get_master_card_working", args,
                    Ok([id |-> i,
                        employee_aid |-> working_master_cards[i].employee_aid,
                        encrypted_data |-> working_master_cards[i].encrypted_data]))
             /\ UNCHANGED <<consent_vars, context_cards, policy_vars, store_vars,
                            key_vars, master_vars, orm_vars>>

(* Specifications of the master cards, one for each backend *)

MasterCardCreates == [employeeAid : CardHolders, encryptedProfileData : ProfileChoices]

CreateMasterCard ==
    \E d \in MasterCardCreates, x \in CardHolders \cup ShortHeaders :
        create_master_card(d, x)

GetEmployeeMasterCard ==
    \E e \in CardHolders, x \in CardHolders \cup ShortHeaders :
        get_employee_master_card(e, x)

GetEmployeeMasterCardEncrypted ==
    \E e \in CardHolders, x \in CardHolders \cup ShortHeaders :
        get_employee_master_card_encrypted(e, x)

UpdateEmployeeMasterCard ==
    \E e \in CardHolders, u \in {None} \cup {Some(d) : d \in ProfileChoices},
       x \in CardHolders \cup ShortHeaders :
        update_employee_master_card(e, u, x)

DeleteEmployeeMasterCard ==
    \E e \in CardHolders, x \in CardHolders \cup ShortHeaders :
        delete_employee_master_card(e, x)

CreateMasterCardWorking ==
    \E e \in CardHolders, d \in ProfileChoices : create_master_card_working(e, d)

GetMasterCardWorking ==
    \E e \in CardHolders, l \in LogOutcomes : get_master_card_working(e, l)

NextMasterCards ==
    \/ Tick
    \/ CreateMasterCard
    \/ GetEmployeeMasterCard
    \/ GetEmployeeMasterCardEncrypted
    \/ UpdateEmployeeMasterCard
    \/ DeleteEmployeeMasterCard

SpecMasterCards == Init /\ [][NextMasterCards]_vars

NextWorkingMasterCards ==
    \/ Tick
    \/ CreateMasterCardWorking
    \/ GetMasterCardWorking

SpecWorkingMasterCards == Init /\ [][NextWorkingMasterCards]_vars

-----------------------------------------------------------------------------
(* Context cards: the endpoints of context_cards.py over the SQLAlchemy      *)
(* models.  A row carries the columns the handlers assign and read.          *)

PurposeChoices == {"travel-booking"}
CardExpiryChoices == {None} \cup {Some(t) : t \in 0..MaxTime}

ContextCardCreates ==
    [employeeAid : EmployeeAids, companyAid : AuthCompanies,
     encryptedData : EncryptedDataChoices, encryptionCipherQb64 : {"cipher"},
     sharedFields : SharedFieldChoices, purpose : PurposeChoices,
     expiresAt : CardExpiryChoices]

\* the bodies of PUT /context-cards/{card_id} the model sends: the fields that
\* were set (updates.dict(exclude_unset=True))
ContextCardUpdates ==
    {[isActive |-> TRUE],
     [purpose |-> "marketing"],
     [encryptedData |-> "other-ciphertext", expiresAt |-> None]}

ContextCard(card_id, card_data) ==
    [id |-> card_id,
     employee_aid |-> card_data.employeeAid,
     company_aid |-> card_data.companyAid,
     encrypted_data |-> card_data.encryptedData,
     encryption_cipher_qb64 |-> card_data.encryptionCipherQb64,
     shared_fields |-> card_data.sharedFields,
     purpose |-> card_data.purpose,
     expires_at |-> card_data.expiresAt,
     is_active |-> TRUE,
     last_accessed_at |-> None,
     created_at |-> now,
     updated_at |-> now]

ContextCardAccess(context_card_id, accessed_by_aid, access_type) ==
    [context_card_id |-> context_card_id, accessed_by_aid |-> accessed_by_aid,
     access_type |-> access_type, accessed_at |-> now]

\* ContextCardResponse: the columns answered without the encrypted data
ContextCardResponse(card) ==
    [id |-> card.id, employeeAid |-> card.employee_aid,
     companyAid |-> card.company_aid, sharedFields |-> card.shared_fields,
     purpose |-> card.purpose, isActive |-> card.is_active,
     expiresAt |-> card.expires_at, lastAccessedAt |-> card.last_accessed_at]

\* ContextCardWithDataResponse
ContextCardWithDataResponse(card) ==
    [id |-> card.id, employeeAid |-> card.employee_aid,
     companyAid |-> card.company_aid, sharedFields |-> card.shared_fields,
     purpose |-> card.purpose, isActive |-> card.is_active,
     expiresAt |-> card.expires_at, lastAccessedAt |-> card.last_accessed_at,
     encryptedData |-> card.encrypted_data,
     encryptionCipherQb64 |-> card.encryption_cipher_qb64]

\* db.query(ContextCard).filter(ContextCard.id == card_id).first() found a row
ContextCardFound(card_id) == card_id \in DOMAIN orm_context_cards

\* POST /context-cards
orm_create_context_card(card_data) ==
    LET card_id == Len(orm_context_cards) + 1
    IN  /\ card_id <= MaxCards
        /\ orm_context_cards' = Append(orm_context_cards,
               ContextCard(card_id, card_data))
        /\ last_response' = Response("create_context_card", card_data,
               Ok(ContextCardResponse(ContextCard(card_id, card_data))))
        /\ UNCHANGED <<consent_vars, card_vars, policy_vars, store_vars, key_vars,
                       master_vars, context_card_access>>

\* GET /context-cards/{card_id}
get_context_card(card_id) ==
    /\ last_response' = Response("get_context_card", [card_id |-> card_id],
           IF ~ContextCardFound(card_id)
           THEN ReRaise(HTTPException(404, "Context card not found"))
           ELSE Ok(ContextCardResponse(orm_context_cards[card_id])))
    /\ UNCHANGED <<consent_vars, card_vars, policy_vars, store_vars, key_vars,
                   master_vars, orm_vars>>

\* the checks of the read without the comparison of the requester with the
\* company of the card
ContextCardReadRefusalForAnyRequester(card_id, requesting_aid) ==
    IF ~ContextCardFound(card_id)
    THEN Some(HTTPException(404, "Context card not found"))
    ELSE IF ~orm_context_cards[card_id].is_active
    THEN Some(HTTPException(403, "Context card is inactive"))
    ELSE IF /\ orm_context_cards[card_id].expires_at # None
            /\ Value(orm_context_cards[card_id].expires_at) < now
    THEN Some(HTTPException(403, "Context card has expired"))
    ELSE None

\* what GET /context-cards/{card_id}/encrypted answers before it logs the
\* access; None when it goes on
ContextCardReadRefusal(card_id, requesting_aid) ==
    IF ~ContextCardFound(card_id)
    THEN Some(HTTPException(404, "Context card not found"))
    ELSE IF requesting_aid # orm_context_cards[card_id].company_aid
    THEN Some(HTTPException(403, "Access denied - not authorized company"))
    ELSE IF ~orm_context_cards[card_id].is_active
    THEN Some(HTTPException(403, "Context card is inactive"))
    ELSE IF /\ orm_context_cards[card_id].expires_at # None
            /\ Value(orm_context_cards[card_id].expires_at) < now
    THEN Some(HTTPException(403, "Context card has expired"))
    ELSE None

\* GET /context-cards/{card_id}/encrypted
get_context_card_with_data(card_id, requesting_aid) ==
    LET refusal == ContextCardReadRefusal(card_id, requesting_aid)
        args == [card_id |-> card_id, requesting_aid |-> requesting_aid]
    IN  /\ UNCHANGED <<consent_vars, card_vars, policy_vars, store_vars, key_vars,
                       master_vars>>
        /\ IF refusal # None
           THEN /\ last_response' = Response("get_context_card_with_data", args,
                       ReRaise(Value(refusal)))
                /\ UNCHANGED orm_vars
           ELSE /\ Len(context_card_access) < MaxAccess
                /\ context_card_access' = Append(context_card_access,
                       ContextCardAccess(card_id, requesting_aid, "read"))
                /\ orm_context_cards' = [orm_context_cards EXCEPT
                       ![card_id].last_accessed_at = Some(now)]
                /\ last_response' = Response("get_context_card_with_data", args,
                       Ok(ContextCardWithDataResponse(orm_context_cards'[card_id])))

\* for field, value in update_data.items(): if hasattr(card, field): setattr
SetAttributesByColumnName(card, update_data) ==
    LET column == [encryptedData |-> "encrypted_data",
                   encryptionCipherQb64 |-> "encryption_cipher_qb64",
                   sharedFields |-> "shared_fields", purpose |-> "purpose",
                   isActive |-> "is_active", expiresAt |-> "expires_at"]
    IN  [attribute \in DOMAIN card |->
            IF \E field \in DOMAIN update_data : column[field] = attribute
            THEN update_data[CHOOSE field \in DOMAIN update_data :
                                 column[field] = attribute]
            ELSE card[attribute]]

SetAttributes(card, update_data) ==
    [attribute \in DOMAIN card |->
        IF attribute \in DOMAIN update_data
        THEN update_data[attribute]
        ELSE card[attribute]]

\* PUT /context-cards/{card_id}
update_context_card(card_id, updates, employee_aid) ==
    LET args == [card_id |-> card_id, updates |-> updates,
                 employee_aid |-> employee_aid]
    IN  /\ UNCHANGED <<consent_vars, card_vars, policy_vars, store_vars, key_vars,
                       master_vars, context_card_access>>
        /\ IF ~ContextCardFound(card_id)
           THEN /\ last_response' = Response("update_context_card", args,
                       ReRaise(HTTPException(404, "Context card not found")))
                /\ UNCHANGED orm_context_cards
           ELSE IF orm_context_cards[card_id].employee_aid # employee_aid
           THEN /\ last_response' = Response("update_context_card", args,
                       ReRaise(HTTPException(403,
                           "Access denied - not your context card")))
                /\ UNCHANGED orm_context_cards
           ELSE /\ orm_context_cards' = [orm_context_cards EXCEPT
                       ![card_id] = [SetAttributes(@, updates)
                                        EXCEPT !.updated_at = now]]
                /\ last_response' = Response("update_context_card", args,
                       Ok(ContextCardResponse(orm_context_cards'[card_id])))

\* PUT /context-cards/{card_id}/revoke
orm_revoke_context_card(card_id, employee_aid) ==
    LET args == [card_id |-> card_id, employee_aid |-> employee_aid]
    IN  /\ UNCHANGED <<consent_vars, card_vars, policy_vars, store_vars, key_vars,
                       master_vars, context_card_access>>
        /\ IF ~ContextCardFound(card_id)
           THEN /\ last_response' = Response("revoke_context_card", args,
                       ReRaise(HTTPException(404, "Context card not found")))
                /\ UNCHANGED orm_context_cards
           ELSE IF orm_context_cards[card_id].employee_aid # employee_aid
           THEN /\ last_response' = Response("revoke_context_card", args,
                       ReRaise(HTTPException(403,
                           "Access denied - not your context card")))
                /\ UNCHANGED orm_context_cards
           ELSE /\ orm_context_cards' = [orm_context_cards EXCEPT
                       ![card_id].is_active = FALSE,
                       ![card_id].updated_at = now]
                /\ last_response' = Response("revoke_context_card", args,
                       Ok("Context card access revoked successfully"))

\* the rows GET /context-cards/company/{company_aid} selects
CompanyContextCards(company_aid, active_only) ==
    {i \in DOMAIN orm_context_cards :
        /\ orm_context_cards[i].company_aid = company_aid
        /\ active_only =>
               /\ orm_context_cards[i].is_active
               /\ \/ orm_context_cards[i].expires_at = None
                  \/ Value(orm_context_cards[i].expires_at) > now}

\* GET /context-cards/company/{company_aid}: the rows are answered as they are
get_company_context_cards(company_aid, active_only) ==
    /\ last_response' = Response("get_company_context_cards",
           [company_aid |-> company_aid, active_only |-> active_only],
           Ok({orm_context_cards[i] :
                   i \in CompanyContextCards(company_aid, active_only)}))
    /\ UNCHANGED <<consent_vars, card_vars, policy_vars, store_vars, key_vars,
                   master_vars, orm_vars>>

(* Specification of the context cards of context_cards.py *)

OrmCreateContextCard == \E d \in ContextCardCreates : orm_create_context_card(d)

GetContextCard == \E i \in CardIds : get_context_card(i)

GetContextCardWithData ==
    \E i \in CardIds, c \in AuthCompanies : get_context_card_with_data(i, c)

UpdateContextCard ==
    \E i \in CardIds, u \in ContextCardUpdates, e \in CardHolders :
        update_context_card(i, u, e)

OrmRevokeContextCard ==
    \E i \in CardIds, e \in CardHolders : orm_revoke_context_card(i, e)

GetCompanyContextCards ==
    \E c \in AuthCompanies, a \in BOOLEAN : get_company_context_cards(c, a)

NextContextCards ==
    \/ Tick
    \/ OrmCreateContextCard
    \/ GetContextCard
    \/ GetContextCardWithData
    \/ UpdateContextCard
    \/ OrmRevokeContextCard
    \/ GetCompanyContextCards

SpecContextCards == Init /\ [][NextContextCards]_vars

(* Specification of the reads and changes of cards by a named requester, in   *)
(* both backends: who asks and whose card it is are drawn from all pairs       *)

AccessCreateMasterCard ==
    \E e \in CardHolders, x \in CardHolders \cup ShortHeaders :
        create_master_card([employeeAid |-> e,
                            encryptedProfileData |-> "profile-ciphertext-1"], x)

AccessUpdateMasterCard ==
    \E e \in CardHolders, x \in CardHolders \cup ShortHeaders :
        update_employee_master_card(e, Some("profile-ciphertext-2"), x)

AccessCreateContextCard ==
    \E d \in ContextCardCreates : d.expiresAt = None /\ orm_create_context_card(d)

AccessCreateWorkingContextCard ==
    \E e \in EmployeeAids, c \in AuthCompanies, d \in EncryptedDataChoices,
       f \in SharedFieldChoices :
        create_context_card(e, c, d, f, "written")

NextCardAccess ==
    \/ AccessCreateMasterCard
    \/ GetEmployeeMasterCardEncrypted
    \/ AccessUpdateMasterCard
    \/ DeleteEmployeeMasterCard
    \/ AccessCreateContextCard
    \/ GetContextCardWithData
    \/ GetCompanyContextCards
    \/ AccessCreateWorkingContextCard
    \/ GetContextCardForCompany

SpecCardAccess == Init /\ [][NextCardAccess]_vars

(* Specification of the revocation of context cards in both backends *)

NextRevocation ==
    \/ Tick
    \/ AccessCreateContextCard
    \/ GetContextCardWithData
    \/ UpdateContextCard
    \/ OrmRevokeContextCard
    \/ AccessCreateWorkingContextCard
    \/ GetContextCardForCompany
    \/ RevokeContextCard

SpecRevocation == Init /\ [][NextRevocation]_vars

-----------------------------------------------------------------------------
(* Properties of the encryption service *)

\* a key of the pair is missing from the key stores
KeyMissing(employee_aid, company_aid) ==
    \/ KeysOf(employee_keys, employee_aid) = None
    \/ KeysOf(company_keys, company_aid) = None

KeyNotFound ==
    {Raised("ValueError: No public key found for employee"),
     Raised("ValueError: No private key found for company")}

C22_RotationKeepsOldPayloadsReadable ==
    /\ [](\A p \in sealed_payloads :
            DecryptResult(company_keys, employee_keys, p.encrypted_data,
                          p.employee_aid, p.company_aid) = Returned(p.data))
    /\ [][\A e \in EmployeeAids, c \in CompanyAids :
            (encrypt_data_for_employee(Business, e, c) /\ ~KeyMissing(e, c))
            => b64decode(last_response'.result.value).box =
                   Box(Value(company_keys[c]).x25519_private_key,
                       Value(employee_keys[e]).x25519_public_key)]_vars

-----------------------------------------------------------------------------
(* Properties of the card stores *)

\* the active rows of one employee in a table of master cards
ActiveCards(table, employee_aid) ==
    {i \in DOMAIN table : table[i].employee_aid = employee_aid /\ table[i].is_active}

\* C23: each employee has at most one active master card in each backend, and
\* a create for an employee who has an active one answers with a conflict and
\* adds no row
C23_OneActiveMasterCard ==
    /\ [](\A e \in CardHolders :
            /\ Cardinality(ActiveCards(master_cards, e)) <= 1
            /\ Cardinality(ActiveCards(working_master_cards, e)) <= 1)
    /\ [][\A e \in CardHolders, d \in ProfileChoices :
            /\ (/\ ActiveCards(master_cards, e) # {}
                /\ create_master_card([employeeAid |-> e, encryptedProfileData |-> d], e))
               => /\ last_response'.status_code = 409
                  /\ UNCHANGED master_cards
            /\ (/\ ActiveCards(working_master_cards, e) # {}
                /\ create_master_card_working(e, d))
               => /\ last_response'.status_code = 409
                  /\ UNCHANGED working_master_cards]_vars

\* the last request was answered with status 200
Answered(op) ==
    /\ last_response # None
    /\ last_response.op = op
    /\ last_response.status_code = 200

MasterCardOperations ==
    {"get_employee_master_card", "get_employee_master_card_encrypted",
     "update_employee_master_card", "delete_employee_master_card"}

LoggedOnce(log, entry) == log' = Append(log, entry)

\* C25: every read of a master card or of a context card that succeeds
\* appends exactly one access entry for that card and sets the card's
\* last_accessed_at to the time of the read; the rows of SimpleStorageService
\* have no last_accessed_at, there the read appends its one entry
C25_ReadsAreLoggedAndStamped ==
    [][/\ \A i \in CardIds :
            /\ (ContextCardFound(i) /\ get_context_card(i))
               => /\ \E c \in AuthCompanies \cup CardHolders :
                         LoggedOnce(context_card_access,
                                    ContextCardAccess(i, c, "read"))
                  /\ orm_context_cards'[i].last_accessed_at = Some(now)
            /\ \A c \in AuthCompanies :
                   /\ (/\ get_context_card_with_data(i, c)
                       /\ last_response'.status_code = 200)
                      => /\ LoggedOnce(context_card_access,
                                       ContextCardAccess(i, c, "read"))
                         /\ orm_context_cards'[i].last_accessed_at = Some(now)
                   /\ \A l \in LogOutcomes :
                          (/\ get_context_card_for_company(i, c, l)
                           /\ last_response'.status_code = 200)
                          => LoggedOnce(access_logs,
                                 [card_id |-> i, card_type |-> "context_card",
                                  accessed_by |-> c,
                                  access_type |-> "company_access",
                                  accessed_at |-> now])
       /\ \A e \in CardHolders :
            /\ (/\ \/ get_employee_master_card(e, e)
                    \/ get_employee_master_card_encrypted(e, e)
                 /\ last_response'.status_code = 200)
               => /\ \E t \in {"read", "decrypt"} :
                         LoggedOnce(master_card_access,
                             MasterCardAccessLog(ActiveMasterCard(e), t))
                  /\ master_cards'[ActiveMasterCard(e)].last_accessed_at
                         = Some(now)
            /\ \A l \in LogOutcomes :
                   (/\ get_master_card_working(e, l)
                    /\ last_response'.status_code = 200)
                   => LoggedOnce(access_logs,
                          [card_id |-> last_response'.detail.id,
                           card_type |-> "master_card", accessed_by |-> e,
                           access_type |-> "read", accessed_at |-> now])]_vars

CreationColumns ==
    {"employee_aid", "company_aid", "encrypted_data", "encryption_cipher_qb64",
     "shared_fields", "purpose", "expires_at"}

\* the row differs from the earlier one in the named columns at most
SameExcept(earlier, later, columns) ==
    /\ DOMAIN later = DOMAIN earlier
    /\ \A column \in DOMAIN earlier \ columns : later[column] = earlier[column]

ApprovalsBehind(card) ==
    {r \in ConsentsForCard(card) :
        /\ consent_records[r].approved_at # None
        /\ consent_records[r].approved_fields = Some(Range(card.shared_fields))}

\* C29: every context card of either backend stands on a consent of its
\* employee to its company that was approved with the card's shared fields
C29_CardsComeFromApprovedConsents ==
    /\ \A i \in DOMAIN context_cards : ApprovalsBehind(context_cards[i]) # {}
    /\ \A i \in DOMAIN orm_context_cards :
           ApprovalsBehind(orm_context_cards[i]) # {}

-----------------------------------------------------------------------------
(* Properties of an approval *)

\* what get_status and get_data report of a record, as they would answer now
ReportsApproval(request_id, approved_fields, context_card_said) ==
    /\ StatusAfterExpiryCheck(consent_records[request_id]) = "approved"
    /\ consent_records[request_id].approved_fields = Some(approved_fields)
    /\ consent_records[request_id].context_card_said = Some(context_card_said)
    /\ ConsentDataAnswer(request_id) =
           Ok([context_card_said |-> Some(context_card_said),
               approved_fields |-> Some(approved_fields)])

\* C30: the step that completes an approve with fields F and reference S
\* answers 200, sets status approved, approved_fields F, context_card_said S,
\* the signature and approved_at and appends one consent_approved entry; and a
\* record that reports approved with F and S goes on reporting approved with
\* F and S across every step that does not revoke it
C30_ApprovalStandsUntilRevoked ==
    /\ [][\A a \in Approvals :
            approve_tasks' = approve_tasks (-) SetToBag({a}) /\ BagIn(a, approve_tasks)
            => /\ last_response'.op = "approve"
               /\ last_response'.status_code = 200
               /\ consent_records'[a.request_id] =
                      ApprovedRow(consent_records[a.request_id], a)
               /\ ReportsApproval(a.request_id, a.approved_fields,
                                  a.context_card_said)'
               /\ audit_log' = Append(audit_log,
                      AuditLog("consent_approved", a.request_id, "employee"))]_vars
    /\ [][\A r \in DOMAIN consent_records, f \in ApprovedFieldChoices, s \in Saids :
            (/\ ReportsApproval(r, f, s)
             /\ consent_records'[r].status # "revoked")
            => ReportsApproval(r, f, s)']_consent_records

-----------------------------------------------------------------------------
(* The reads of the consent workflow over several requests *)

MaxListed == 2

ListedIds == 1..MaxListed

\* the rows GET /consent/pending/{employee_aid} selects
PendingRecords(employee_aid) ==
    {r \in DOMAIN consent_records :
        /\ consent_records[r].employee_aid = employee_aid
        /\ consent_records[r].status = "pending"
        /\ consent_records[r].expires_at > now}

\* GET /consent/pending/{employee_aid}
get_pending_consent_requests(employee_aid) ==
    /\ last_response' = Response("get_pending", [employee_aid |-> employee_aid],
           IF ~validate_aid(employee_aid)
           THEN WrapAll(HTTPException(400, "Invalid employee AID format"))
           ELSE Ok([pending_requests |->
                      {[request_id |-> consent_records[r].request_id,
                        company_aid |-> consent_records[r].company_aid,
                        requested_fields |-> consent_records[r].requested_fields,
                        expires_at |-> consent_records[r].expires_at] :
                          r \in PendingRecords(employee_aid)}]))
    /\ UNCHANGED <<consent_vars, card_vars, policy_vars, store_vars, key_vars,
                   master_vars, orm_vars>>

\* the requests of the listing were created at time 0, one after the other
InitListed ==
    /\ consent_records =
           [r \in ListedIds |->
               ConsentRecord(r, "ECompany1", "EEmployee1",
                             {"dietary", "emergency_contact"}, 1)]
    /\ audit_log =
           [r \in ListedIds |-> AuditLog("consent_request_created", r, "company")]
    /\ credential_store = [s \in Saids |-> None]
    /\ approve_tasks = EmptyBag
    /\ now = 0
    /\ context_cards = <<>>
    /\ access_logs = <<>>
    /\ policy_input = None
    /\ policy_output = None
    /\ last_response = None
    /\ db_pool = None
    /\ preferences_table = {}
    /\ InitCardServices

ListedApprovals ==
    [request_id : ListedIds, approved_fields : {{"dietary"}},
     context_card_said : {"ESaid1"}, employee_signature : {"sig"}]

ListedApprove == \E a \in ListedApprovals : ApproveBegin(a)

ListedApproveCompletes == \E a \in ListedApprovals : ApproveResume(a, "encrypted")

ListedDeny == \E r \in ListedIds : deny_consent_request(r)

ListedRevoke == \E r \in ListedIds : revoke_consent(r)

ListedGetStatus == \E r \in ListedIds : get_consent_status(r)

ListedGetData == \E r \in ListedIds : get_consent_data(r)

GetPendingConsentRequests ==
    \E e \in EmployeeAids \cup MalformedAids : get_pending_consent_requests(e)

NextListed ==
    \/ Tick
    \/ ListedApprove
    \/ ListedApproveCompletes
    \/ ListedDeny
    \/ ListedRevoke
    \/ ListedGetStatus
    \/ ListedGetData
    \/ GetPendingConsentRequests

SpecListed == InitListed /\ [][NextListed]_vars

(* Properties of the reads of the consent workflow *)

\* the row after a read of it: a pending row past its expires_at is expired
AfterLazyExpiry(record) ==
    IF record.status = "pending" /\ record.expires_at <= now
    THEN [record EXCEPT !.status = "expired"]
    ELSE record

\* C31: get_status changes the queried record by the lazy expiry at most,
\* get_data and the pending listing change no record, none of the three adds
\* an audit entry or touches the credential store or another record, and the
\* pending listing of an employee holds exactly its requests that are pending
\* and not past expires_at
C31_ReadsOnlyExpire ==
    /\ [][\A r \in ListedIds :
            /\ get_consent_status(r)
               => /\ Exists(r)
                  /\ consent_records' = [consent_records EXCEPT
                         ![r] = AfterLazyExpiry(consent_records[r])]
                  /\ UNCHANGED <<audit_log, credential_store>>
            /\ (\/ get_consent_data(r)
                \/ \E e \in EmployeeAids \cup MalformedAids :
                       get_pending_consent_requests(e))
               => UNCHANGED <<consent_records, audit_log, credential_store>>
       ]_<<consent_records, audit_log, credential_store>>
    /\ [](\A e \in EmployeeAids, r \in DOMAIN consent_records :
            r \in PendingRecords(e)
            <=> /\ consent_records[r].employee_aid = e
                /\ consent_records[r].status = "pending"
                /\ ~Expired(consent_records[r]))

\* get_status turned one pending request into an expired one while the other
\* request of the employee stands approved
C31_Witness ==
    /\ IsResponse("get_status", 1)
    /\ last_response.status_code = 200
    /\ last_response.detail.status = "expired"
    /\ Len(consent_records) >= 2
    /\ consent_records[1].status = "expired"
    /\ consent_records[2].status = "approved"
    /\ Len(audit_log) = 3

-----------------------------------------------------------------------------
(* The history of a master card: its backups and its access log *)

\* the entries of the card of filter(employee_aid == ?, is_active == True)
AccessLogsOfActiveCard(employee_aid) ==
    {i \in DOMAIN master_card_access :
        /\ ActiveMasterCard(employee_aid) # 0
        /\ master_card_access[i].master_card_id = ActiveMasterCard(employee_aid)}

\* the entries GET /master-cards/employee/{employee_aid}/access-logs selects:
\* those of the employee's row, active or not
AccessLogsOf(employee_aid) ==
    {i \in DOMAIN master_card_access :
        \E c \in DOMAIN master_cards :
            /\ master_cards[c].employee_aid = employee_aid
            /\ master_card_access[i].master_card_id = c}

\* GET /master-cards/employee/{employee_aid}/access-logs
get_master_card_access_logs(employee_aid, requesting_employee_aid) ==
    LET args == [employee_aid |-> employee_aid, requester |-> requesting_employee_aid]
    IN  /\ last_response' = Response("get_master_card_access_logs", args,
               IF ~HeaderAccepted(requesting_employee_aid)
               THEN Unauthorized
               ELSE IF employee_aid # requesting_employee_aid
               THEN ReRaise(HTTPException(403, "Access denied"))
               ELSE IF \A c \in DOMAIN master_cards :
                           master_cards[c].employee_aid # employee_aid
               THEN ReRaise(HTTPException(404, "Master card not found"))
               ELSE Ok([access_logs |->
                          {master_card_access[i] : i \in AccessLogsOf(employee_aid)}]))
        /\ UNCHANGED <<consent_vars, card_vars, policy_vars, store_vars, key_vars,
                       master_vars, orm_vars>>

GetMasterCardAccessLogs ==
    \E e \in CardHolders, x \in CardHolders \cup ShortHeaders :
        get_master_card_access_logs(e, x)

NextMasterCardHistory ==
    \/ NextMasterCards
    \/ GetMasterCardAccessLogs

SpecMasterCardHistory == Init /\ [][NextMasterCardHistory]_vars

\* the earlier sequence is the beginning of the later one
IsPrefix(earlier, later) ==
    /\ Len(earlier) <= Len(later)
    /\ \A i \in DOMAIN earlier : later[i] = earlier[i]

\* the step ended with the answer 200 to the operation
StepAnswered(op) ==
    /\ last_response' # None
    /\ last_response'.op = op
    /\ last_response'.status_code = 200

\* C32: an update of a master card adds one backup holding the encrypted
\* profile as it was before the step; a delete sets is_active false (and
\* updated_at) and leaves every other column; no step removes a card, a
\* backup or an access entry; and the access entries of a card are the ones
\* the access-log read of its employee selects, whether the card is active
\* or not
C32_MasterCardHistoryIsKept ==
    /\ [][/\ Len(master_cards') >= Len(master_cards)
          /\ IsPrefix(master_card_backups, master_card_backups')
          /\ IsPrefix(master_card_access, master_card_access')
          /\ StepAnswered("update_employee_master_card")
             => LET card_id == ActiveMasterCard(last_response'.args.employee_aid)
                IN  /\ master_card_backups' = Append(master_card_backups,
                           [master_card_id |-> card_id,
                            backup_data |->
                                master_cards[card_id].encrypted_profile_data,
                            backup_reason |-> "update"])
                    /\ master_cards'[card_id].is_active
          /\ StepAnswered("delete_employee_master_card")
             => LET card_id == ActiveMasterCard(last_response'.args.employee_aid)
                IN  /\ master_cards' = [master_cards EXCEPT
                           ![card_id].is_active = FALSE,
                           ![card_id].updated_at = now]
                    /\ Len(master_card_backups') = Len(master_card_backups) + 1
       ]_master_vars
    /\ [](\A i \in DOMAIN master_card_access :
            i \in AccessLogsOf(
                     master_cards[master_card_access[i].master_card_id].employee_aid))

\* a deactivated card with its backup, whose delete entry the access-log read
\* of its employee selects
C32_Witness ==
    \E c \in DOMAIN master_cards :
        /\ ~master_cards[c].is_active
        /\ \E b \in DOMAIN master_card_backups :
               /\ master_card_backups[b].master_card_id = c
               /\ master_card_backups[b].backup_reason = "deletion"
               /\ master_card_backups[b].backup_data
                      = master_cards[c].encrypted_profile_data
        /\ \E i \in AccessLogsOf(master_cards[c].employee_aid) :
               master_card_access[i].access_type = "delete"

\* the access types of an access log entry
AccessTypes == {"create", "read", "decrypt", "revoke", "company_access"}

-----------------------------------------------------------------------------
(* Failures of the audit write.  approve and deny commit the record first   *)
(* and the AuditLog row in a second commit; the handlers above are the case  *)
(* where the second commit goes through.                                     *)

\* POST /consent/approve from the encryption's outcome on, with the outcome of
\* the commit of the audit row
ApproveResumeAudited(approval, outcome, audit_outcome) ==
    IF audit_outcome = "written"
    THEN ApproveResume(approval, outcome)
    ELSE /\ BagIn(approval, approve_tasks)
         /\ credential_store' = StoreAfterEncryption(credential_store,
                consent_records[approval.request_id], approval, outcome)
         /\ consent_records' = [consent_records EXCEPT
                ![approval.request_id] = ApprovedRow(@, approval)]
         /\ approve_tasks' = approve_tasks (-) SetToBag({approval})
         /\ last_response' = Response("approve",
                [request_id |-> approval.request_id,
                 approved_fields |-> approval.approved_fields],
                WrapAll(HTTPException(500, "Failed to approve consent")))
         /\ UNCHANGED <<audit_log, now, card_vars, policy_vars, store_vars,
                        key_vars, master_vars, orm_vars>>

\* POST /consent/deny/{request_id} with the outcome of the commit of the audit
\* row
deny_consent_request_audited(request_id, audit_outcome) ==
    IF audit_outcome = "written" \/ DenyRefusal(request_id) # None
    THEN deny_consent_request(request_id)
    ELSE /\ consent_records' = [consent_records EXCEPT
                ![request_id].status = "denied",
                ![request_id].denied_at = Some(now)]
         /\ last_response' = Response("deny", [request_id |-> request_id],
                WrapAll(HTTPException(500, "Failed to deny consent")))
         /\ UNCHANGED <<credential_store, audit_log, approve_tasks, now, card_vars,
                        policy_vars, store_vars, key_vars, master_vars, orm_vars>>

ApproveCompletesAudited ==
    \E a \in CardApprovals, o \in MockEncryptOutcomes, l \in LogOutcomes :
        ApproveResumeAudited(a, o, l)

DenyAudited ==
    \E r \in RequestIds, l \in LogOutcomes : deny_consent_request_audited(r, l)

NextAudited ==
    \/ Tick
    \/ CardsCreateRequest
    \/ CardsApprove
    \/ ApproveCompletesAudited
    \/ DenyAudited
    \/ GetStatus
    \/ CreateContextCard
    \/ GetContextCardForCompany

SpecAudited == Init /\ [][NextAudited]_vars

\* C34: when the write of the audit or access entry fails, the operation
\* still takes effect and still answers 200: a create or a company read of a
\* context card, an approve and a deny
C34_LogFailureDoesNotBlock ==
    /\ [][\A i \in CardIds, c \in AuthCompanies :
            /\ (/\ CardRowForCompany(i, c) # None
                /\ get_context_card_for_company(i, c, "fails"))
               => /\ last_response'.status_code = 200
                  /\ last_response'.detail.encrypted_data
                         = context_cards[i].encrypted_data
            /\ \A e \in EmployeeAids, d \in EncryptedDataChoices,
                  f \in SharedFieldChoices :
                   create_context_card(e, c, d, f, "fails")
                   => /\ last_response'.status_code = 200
                      /\ Len(context_cards') = Len(context_cards) + 1]_vars
    /\ [][/\ \A a \in CardApprovals, o \in MockEncryptOutcomes :
               ApproveResumeAudited(a, o, "fails")
               => /\ consent_records'[a.request_id].status = "approved"
                  /\ last_response'.status_code = 200
          /\ \A r \in RequestIds :
               (/\ DenyRefusal(r) = None
                /\ deny_consent_request_audited(r, "fails"))
               => /\ consent_records'[r].status = "denied"
                  /\ last_response'.status_code = 200]_consent_records

-----------------------------------------------------------------------------
(* Consent handlers of the mobile API (mobile_keri.py) on the table of the    *)
(* consent workflow                                                           *)

\* the rows of the table employees: employee_id -> aid
RegisteredEmployees == [employee_id \in {"emp-1"} |-> "EEmployee1"]
UnknownEmployeeIds == {"emp-9"}

MobileConsentChoices ==
    {{"share_with_scania", "share_flight_prefs"}, {}}

\* POST /consent/update: inserts a record that is approved from the start
update_mobile_consent(employee_id, shared) ==
    LET consent_id == Len(consent_records) + 1
        args == [employee_id |-> employee_id]
    IN  IF employee_id \notin DOMAIN RegisteredEmployees
        THEN /\ last_response' = Response("update_mobile_consent", args,
                    ReRaise(HTTPException(404, "Employee not found")))
             /\ UNCHANGED <<consent_vars, card_vars, policy_vars, store_vars,
                            key_vars, master_vars, orm_vars>>
        ELSE /\ consent_id <= MaxRequests
             /\ consent_records' = Append(consent_records,
                    [request_id |-> consent_id,
                     employee_aid |-> RegisteredEmployees[employee_id],
                     company_aid |-> "EScania123456789012345678901234567890",
                     requested_fields |->
                         {"share_with_scania", "share_flight_prefs",
                          "share_hotel_prefs", "share_accessibility_needs",
                          "share_emergency_contact", "ai_processing_consent"},
                     approved_fields |-> Some(shared),
                     status |-> "approved",
                     expires_at |-> None,
                     approved_at |-> Some(now),
                     denied_at |-> None,
                     revoked_at |-> None,
                     context_card_said |-> None,
                     employee_signature |-> None])
             /\ last_response' = Response("update_mobile_consent", args,
                    Ok([success |-> TRUE, consent_id |-> consent_id]))
             /\ UNCHANGED <<credential_store, audit_log, approve_tasks, now,
                            card_vars, policy_vars, store_vars, key_vars,
                            master_vars, orm_vars>>

\* the rows of filter(employee_aid == employee.aid, status == "active")
ActiveConsents(employee_aid) ==
    {r \in DOMAIN consent_records :
        /\ consent_records[r].employee_aid = employee_aid
        /\ consent_records[r].status = "active"}

\* DELETE /employee/{employee_id}/revoke-access; the rows of the table
\* credentials it also revokes are not part of the model
revoke_employee_access(employee_id) ==
    LET args == [employee_id |-> employee_id]
    IN  IF employee_id \notin DOMAIN RegisteredEmployees
        THEN /\ last_response' = Response("revoke_employee_access", args,
                    ReRaise(HTTPException(404, "Employee not found")))
             /\ UNCHANGED <<consent_vars, card_vars, policy_vars, store_vars,
                            key_vars, master_vars, orm_vars>>
        ELSE LET active_consents == ActiveConsents(RegisteredEmployees[employee_id])
             IN  /\ consent_records' =
                        [r \in DOMAIN consent_records |->
                            IF r \in active_consents
                            THEN [consent_records[r] EXCEPT
                                     !.status = "revoked",
                                     !.denied_at = Some(now)]
                            ELSE consent_records[r]]
                 /\ last_response' = Response("revoke_employee_access", args,
                        Ok([success |-> TRUE,
                            consents_revoked |-> Cardinality(active_consents)]))
                 /\ UNCHANGED <<credential_store, audit_log, approve_tasks, now,
                                card_vars, policy_vars, store_vars, key_vars,
                                master_vars, orm_vars>>

UpdateMobileConsent ==
    \E e \in DOMAIN RegisteredEmployees \cup UnknownEmployeeIds,
       f \in MobileConsentChoices :
        update_mobile_consent(e, f)

RevokeEmployeeAccess ==
    \E e \in DOMAIN RegisteredEmployees \cup UnknownEmployeeIds :
        revoke_employee_access(e)

NextMobile ==
    \/ Tick
    \/ CardsCreateRequest
    \/ CardsApprove
    \/ CardsApproveCompletes
    \/ Deny
    \/ GetStatus
    \/ GetData
    \/ Revoke
    \/ UpdateMobileConsent
    \/ RevokeEmployeeAccess

SpecMobile == Init /\ [][NextMobile]_vars

(* Properties of the mobile consent handlers *)

\* C35: in the state a successful revoke_employee_access leaves, no consent
\* record of the employee is approved and get_data serves none of them
C35_RevokeAccessEndsApprovals ==
    (/\ last_response # None
     /\ last_response.op = "revoke_employee_access"
     /\ last_response.status_code = 200)
    => \A r \in DOMAIN consent_records :
           consent_records[r].employee_aid
               = RegisteredEmployees[last_response.args.employee_id]
           => /\ consent_records[r].status # "approved"
              /\ ConsentDataAnswer(r).status_code # 200

-----------------------------------------------------------------------------
(* Properties of an approve and a deny of the same request *)

\* the decisions the audit log reports for a request
DecisionsReported(request_id) ==
    {audit_log[i].action : i \in {j \in DOMAIN audit_log :
        /\ audit_log[j].entity_id = request_id
        /\ audit_log[j].action \in {"consent_approved", "consent_denied"}}}

\* C36: of an approve and a deny of one request at most one succeeds and the
\* status is the one it reported; no record has approved_at and denied_at
\* both set; a denied record has no approved_fields and no context card
C36_ApproveOrDenyNotBoth ==
    \A r \in DOMAIN consent_records :
        /\ DecisionsReported(r) # {"consent_approved", "consent_denied"}
        /\ DecisionsReported(r) = {"consent_denied"}
               => consent_records[r].status = "denied"
        /\ DecisionsReported(r) = {"consent_approved"}
               => consent_records[r].status \in {"approved", "revoked"}
        /\ ~(consent_records[r].approved_at # None
              /\ consent_records[r].denied_at # None)
        /\ consent_records[r].status = "denied"
               => /\ consent_records[r].approved_fields = None
                  /\ consent_records[r].context_card_said = None

-----------------------------------------------------------------------------
(* The columns of an approval and the status *)

\* C37: a record in status approved or revoked has approved_fields,
\* context_card_said and approved_at set; a record in status pending, denied
\* or expired has none of the three set
C37_ApprovalColumnsFollowStatus ==
    \A r \in DOMAIN consent_records :
        LET record == consent_records[r]
        IN  /\ record.status \in {"approved", "revoked"}
                => /\ record.approved_fields # None
                   /\ record.context_card_said # None
                   /\ record.approved_at # None
            /\ record.status \in {"pending", "denied", "expired"}
                => /\ record.approved_fields = None
                   /\ record.context_card_said = None
                   /\ record.approved_at = None

-----------------------------------------------------------------------------
(* An approved consent and its expires_at *)

\* the last response answers operation op on request r
LastAnswered(op, r) ==
    /\ last_response # None
    /\ last_response.op = op
    /\ last_response.args.request_id = r

\* the request decrypt_employee_data receives for the card of record r
DataRequestFor(r) ==
    [employee_aid |-> consent_records[r].employee_aid,
     company_aid |-> consent_records[r].company_aid,
     context_card_said |-> Value(consent_records[r].context_card_said)]

\* C38: an approved record stays approved until it is revoked, whatever its
\* expires_at; while it is approved get_status reports approved, get_data
\* answers 200 with its card reference and fields, and decrypt_employee_data
\* serves its approved fields when the credential is found and decrypted
C38_ApprovedNeverExpires ==
    /\ [][\A r \in DOMAIN consent_records :
            consent_records[r].status = "approved"
            => consent_records'[r].status \in {"approved", "revoked"}]_consent_records
    /\ [](\A r \in DOMAIN consent_records :
            consent_records[r].status = "approved"
            => /\ LastAnswered("get_status", r)
                    => /\ last_response.status_code = 200
                       /\ last_response.detail.status = "approved"
               /\ (LastAnswered("get_data", r)
                    /\ consent_records[r].context_card_said # None)
                    => /\ last_response.status_code = 200
                       /\ last_response.detail.context_card_said
                              = consent_records[r].context_card_said
               /\ consent_records[r].context_card_said # None
                    => DecryptAnswer(DataRequestFor(r), consent_records[r].company_aid,
                                     r, "found", "decrypted")
                           = Ok([decrypted_fields |-> consent_records[r].approved_fields]))

\* an approved record past its expires_at is served by get_data
C38_Witness ==
    \E r \in DOMAIN consent_records :
        /\ consent_records[r].status = "approved"
        /\ Expired(consent_records[r])
        /\ LastAnswered("get_data", r)
        /\ last_response.status_code = 200

-----------------------------------------------------------------------------
(* The two implementations of the disclosure policy side by side *)

\* both endpoints put the requester of the input in the same class
SameRequesterClass(input) ==
    endswith(Characters[input.requester], <<"-", "a", "i">>)
        <=> requester_type(input.client_id) = "ai"

\* C39: for one requester class, one stored consent and one non-empty list of
\* requested fields, request_data_access and get_employee_travel_data
\* disclose the same fields
C39_PolicyImplementationsAgree ==
    (/\ policy_input # None
     /\ policy_output.request_data_access # None
     /\ policy_output.get_employee_travel_data # None
     /\ SameRequesterClass(Value(policy_input))
     /\ Value(policy_input).requested_fields # <<>>
     /\ Value(policy_output.request_data_access).partition # None
     /\ Value(policy_output.get_employee_travel_data).status_code = 200)
    => Value(Value(policy_output.request_data_access).partition).disclosed_fields
           = Value(policy_output.get_employee_travel_data).disclosed_fields

-----------------------------------------------------------------------------
(* Encrypted ACDC blobs (endpoints/acdc_blobs.py, services/acdc_blobs.py) *)

BlobAids == {"ECompany1", "ECompany2", "EEmployee1"}
BlobDigests == {"digest-1", "digest-2"}

EncryptedBlobs == {<<"b", "1">>, <<"b", "2">>}

\* the try around base64.b64decode: None when the text is not base64
DecodedBlob(text) ==
    IF text[1] = "base64" THEN Some(b64decode(text)) ELSE None

\* the request bodies sent: the last text has incorrect padding
ACDCBlobRequests ==
    [said : {"ESaid1"}, issuer_aid : {"ECompany1", "ECompany2"},
     holder_aid : {"EEmployee1"}, schema_said : {None}, digest_algo : {"sha256"},
     digest : BlobDigests,
     enc_blob_b64 : {b64encode(blob) : blob \in EncryptedBlobs} \cup {<<"text", "abc">>}]

\* whether database_service.pool is set when the store is called
PoolStates == {"initialized", "not initialized"}

\* the caller checks of the blob endpoints against the stored row
AidHeaderOfRow(aid_header, row) ==
    aid_header \in {row.issuer_aid, row.holder_aid}

\* ACDCBlobStore.put: INSERT ... ON CONFLICT (said) DO UPDATE; created_at is
\* written by the insert only
BlobsAfterPut(blobs, request, enc_blob_bytes) ==
    [blobs EXCEPT ![request.said] =
        Some([said |-> request.said,
              issuer_aid |-> request.issuer_aid,
              holder_aid |-> request.holder_aid,
              schema_said |-> request.schema_said,
              digest_algo |-> request.digest_algo,
              digest |-> request.digest,
              size_bytes |-> Len(enc_blob_bytes),
              enc_blob |-> enc_blob_bytes,
              created_at |-> IF @ = None THEN now ELSE Value(@).created_at])]

\* what PUT /blobs/{said} raises; None when the blob is stored
StoreBlobRefusal(said, request, aid_header, pool) ==
    IF said # request.said
    THEN Some(ReRaise(HTTPException(400, "SAID mismatch in path and body")))
    ELSE IF aid_header \notin {request.issuer_aid, request.holder_aid}
    THEN Some(ReRaise(HTTPException(403, "AID header must match issuer or holder")))
    ELSE IF DecodedBlob(request.enc_blob_b64) = None
    THEN Some(ReRaise(HTTPException(400, "Invalid base64 encoded blob")))
    ELSE IF pool # "initialized"
    THEN Some(HTTPException(500, "Failed to store blob: Database pool not initialized"))
    ELSE None

\* PUT /blobs/{said}
store_acdc_blob(said, request, aid_header, pool) ==
    LET args == [said |-> said, aid_header |-> aid_header]
        refusal == StoreBlobRefusal(said, request, aid_header, pool)
        enc_blob_bytes == Value(DecodedBlob(request.enc_blob_b64))
    IN  IF refusal # None
        THEN /\ last_response' = Response("store_acdc_blob", args, Value(refusal))
             /\ UNCHANGED <<consent_vars, card_vars, policy_vars, store_vars,
                            key_vars, master_vars, orm_vars>>
        ELSE /\ acdc_blobs' = BlobsAfterPut(acdc_blobs, request, enc_blob_bytes)
             /\ last_response' = Response("store_acdc_blob", args,
                    Ok([success |-> TRUE, said |-> said,
                        size_bytes |-> Len(enc_blob_bytes)]))
             /\ UNCHANGED <<consent_vars, card_vars, policy_vars, db_pool,
                            preferences_table, key_vars, master_vars, orm_vars>>

ACDCBlobResponse(blob_data) ==
    [said |-> blob_data.said, issuer_aid |-> blob_data.issuer_aid,
     holder_aid |-> blob_data.holder_aid, schema_said |-> blob_data.schema_said,
     digest_algo |-> blob_data.digest_algo, digest |-> blob_data.digest,
     size_bytes |-> blob_data.size_bytes,
     enc_blob_b64 |-> b64encode(blob_data.enc_blob),
     created_at |-> blob_data.created_at]

\* GET /blobs/{said}
get_acdc_blob(said, aid_header, pool) ==
    LET args == [said |-> said, aid_header |-> aid_header]
        blob_data == acdc_blobs[said]
        answer ==
            IF pool # "initialized"
            THEN HTTPException(500,
                     "Failed to retrieve blob: Database pool not initialized")
            ELSE IF blob_data = None
            THEN ReRaise(HTTPException(404, "ACDC blob not found"))
            ELSE IF ~AidHeaderOfRow(aid_header, Value(blob_data))
            THEN ReRaise(HTTPException(403, "AID header must match issuer or holder"))
            ELSE Ok(ACDCBlobResponse(Value(blob_data)))
    IN  /\ last_response' = Response("get_acdc_blob", args, answer)
        /\ UNCHANGED <<consent_vars, card_vars, policy_vars, store_vars,
                       key_vars, master_vars, orm_vars>>

StoreAcdcBlob ==
    \E said \in Saids, request \in ACDCBlobRequests, aid_header \in BlobAids,
       pool \in PoolStates :
        store_acdc_blob(said, request, aid_header, pool)

GetAcdcBlob ==
    \E said \in Saids, aid_header \in BlobAids, pool \in PoolStates :
        get_acdc_blob(said, aid_header, pool)

NextBlobs ==
    \/ Tick
    \/ StoreAcdcBlob
    \/ GetAcdcBlob

SpecBlobs == Init /\ [][NextBlobs]_vars

(* Properties of the blob store *)

\* C40: a stored blob is replaced or changed only by a put whose AID header
\* is the issuer or the holder recorded for it, and it is read only by a
\* caller whose AID header is one of the two
C40_BlobKeptFromOtherAids ==
    /\ [][\A said \in Saids :
            (/\ acdc_blobs[said] # None
             /\ last_response' # None
             /\ last_response'.op = "store_acdc_blob"
             /\ ~AidHeaderOfRow(last_response'.args.aid_header,
                                Value(acdc_blobs[said])))
            => acdc_blobs'[said] = acdc_blobs[said]]_acdc_blobs
    /\ [](\A said \in Saids :
            (/\ last_response # None
             /\ last_response.op = "get_acdc_blob"
             /\ last_response.args.said = said
             /\ last_response.status_code = 200)
            => /\ acdc_blobs[said] # None
               /\ AidHeaderOfRow(last_response.args.aid_header,
                                 Value(acdc_blobs[said])))

====
